---------------------------- MODULE Spec2Model ----------------------------
(***************************************************************************)
(* Holowars: the authoritative game-state server of a hex territorial      *)
(* game (the server part of src/client/vite.config.ts, lines 669-1224).    *)
(*                                                                         *)
(* State: the tile map, the players map, the token->socket and ip->token   *)
(* maps, the per-token rate limiters, the sockets of the transport, the    *)
(* snapshot file.                                                          *)
(* One action per handler / timer callback.                                *)
(***************************************************************************)
EXTENDS Integers, Sequences, FiniteSets, TLC

VARIABLES
    tiles,          \* tiles: Map id -> {ownerFaction, control, isCapital, publicTroops}
    players,        \* players: Map token -> player
    tokenToSocket,  \* Map token -> socket.id, kept in insertion order (a sequence of pairs)
    ipToToken,      \* Map ip -> token, kept in insertion order (a sequence of pairs)
    actionLimiters, \* Map token -> {tokens, last}
    sockets,        \* transport: socket id -> {status, ip, handlers}
    now,            \* Date.now() in seconds
    disk,           \* PERSIST_FILE: << >> or <<the last snapshot written>>
    admitted        \* history, not server state: admitted[<<token, t>>] is the number of
                    \* requests of the token that consume() let pass at time t

vars == <<tiles, players, tokenToSocket, ipToToken, actionLimiters, sockets, now, disk,
          admitted>>

-----------------------------------------------------------------------------
(* Bounds of the model *)

\* how many players may join in a run
MaxPlayers == 2
\* how many connections the transport opens in a run (socket ids are never reused)
NumSockets == 2
\* how many network origins there are
NumIps == 2
\* how many times the 1000 ms recruitment timer fires in a run
MaxTicks == 1
\* how many times the timer fires in a run of the recruitment specifications
MaxRecruitTicks == 5
\* seconds of a run in which the admissions of the limiter are counted
MaxLimiterTicks == 3
\* the largest troop amount a client sends
MaxAmount == 2
\* the initial flood fill claims this many tiles around a capital (25 in the source)
START_TILES_AROUND_CAPITAL == 2
\* the token bucket of makeLimiter (capacity = 20, refillPerSec = 10 in the source)
LIMITER_CAPACITY == 2
LIMITER_REFILL_PER_SEC == 1
\* the recruitment cycle: RECRUIT_DURATION_MS is 5 * 60 * 1000 and RESERVE_CAP
\* is 1000 in the source (10/3 troops a second); here 3 seconds and 4 troops
\* (4/3 troops a second)
RecruitSeconds == 3
RESERVE_CAP == 4

-----------------------------------------------------------------------------
(* Config (lines 682-691) *)

RECRUIT_DURATION_MS == RecruitSeconds * 1000
\* Number(process.env.NEUTRAL_DEFENDERS || 25), configured to 1
NEUTRAL_DEFENDERS_DEFAULT == 1
\* Number(process.env.START_TROOPS || 100), configured to 2
START_TROOPS == 2
\* Number(process.env.DEFENDERS_PER_TILE || 100), configured to 1
CLAIM_DEFENDERS == 1
\* process.env.DISABLE_IP_LOCK === "1"
DISABLE_IP_LOCK == FALSE
\* the period of the recruitment timer
TICK_MS == 1000
\* String(name).slice(0, 24)
NAME_MAX == 24

NoToken == 0
NoSocket == 0
\* PERSIST_FILE does not exist; an existing file is <<data>>
NoFile == << >>
NoTile == <<99, 99>>

Tokens == 1..MaxPlayers
SocketIds == 1..NumSockets
Ips == 1..NumIps

-----------------------------------------------------------------------------
(* Helpers (lines 694-750) *)

DIRS == << <<1, 0>>, <<-1, 0>>, <<0, 1>>, <<0, -1>>, <<1, -1>>, <<-1, 1>> >>

\* key(q, r): the id of the tile at (q, r); the id is the coordinate pair
key(q, r) == <<q, r>>

neighborsOf(q, r) == [i \in 1..Len(DIRS) |-> <<q + DIRS[i][1], r + DIRS[i][2]>>]

Min(a, b) == IF a < b THEN a ELSE b
Max(a, b) == IF a > b THEN a ELSE b

\* the elements of a sequence
Range(s) == {s[i] : i \in 1..Len(s)}

\* the play area: the tiles kept by the point-in-polygon test of
\* buildPentagonWorld, here a four-tile island
\*     (0,0) - (1,0) - (2,0)
\*                \    /
\*                (2,-1)
TileIds == {<<0, 0>>, <<1, 0>>, <<2, 0>>, <<2, -1>>}

\* the factions and the tile nearest to each faction's pentagon vertex
FactionIds == <<"f1", "f2">>
Factions == Range(FactionIds)
CapitalOf == [f \in Factions |-> IF f = "f1" THEN <<0, 0>> ELSE <<2, -1>>]

\* the neighbours of tile id that pass, in DIRS order, not yet seen
RECURSIVE BfsPush(_, _, _, _, _, _)
BfsPush(id, i, tls, passable, seen, queue) ==
    IF i > Len(DIRS) THEN <<seen, queue>>
    ELSE LET nid == key(id[1] + DIRS[i][1], id[2] + DIRS[i][2])
         IN IF nid \in DOMAIN tls /\ nid \notin seen /\ nid \in passable
            THEN BfsPush(id, i + 1, tls, passable, seen \cup {nid}, Append(queue, nid))
            ELSE BfsPush(id, i + 1, tls, passable, seen, queue)

RECURSIVE BfsLoop(_, _, _, _, _, _)
BfsLoop(tls, passable, limit, seen, queue, out) ==
    IF Len(queue) = 0 \/ Len(out) >= limit THEN out
    ELSE LET id == Head(queue)
             r == BfsPush(id, 1, tls, passable, seen, Tail(queue))
         IN BfsLoop(tls, passable, limit, r[1], r[2], Append(out, id))

\* bfsRegion(startId, tiles, passableFn, limit): the tiles visited, in order;
\* passable is the set of tile ids passableFn accepts
bfsRegion(startId, tls, passable, limit) ==
    BfsLoop(tls, passable, limit, {startId}, <<startId>>, <<>>)

\* limit = Infinity
Infinity == Cardinality(TileIds) + 1

-----------------------------------------------------------------------------
(* World generation (lines 753-838) *)

NeutralTile == [ownerFaction |-> "neutral", control |-> NEUTRAL_DEFENDERS_DEFAULT,
                isCapital |-> FALSE, publicTroops |-> 0]

\* lines 796-819: each faction's capital
WithCapitals ==
    [id \in TileIds |->
        IF \E f \in Factions : CapitalOf[f] = id
        THEN [ownerFaction |-> CHOOSE f \in Factions : CapitalOf[f] = id,
              control |-> CLAIM_DEFENDERS, isCapital |-> TRUE, publicTroops |-> 0]
        ELSE NeutralTile]

\* lines 821-835: the flood fill of each faction, in the order of the factions
RECURSIVE ClaimRegions(_, _)
ClaimRegions(i, tls) ==
    IF i > Len(FactionIds) THEN tls
    ELSE LET f == FactionIds[i]
             capId == CapitalOf[f]
             passable == {id \in DOMAIN tls : tls[id].ownerFaction = "neutral" \/ id = capId}
             region == Range(bfsRegion(capId, tls, passable, START_TILES_AROUND_CAPITAL + 1))
         IN ClaimRegions(i + 1,
              [id \in DOMAIN tls |->
                 IF id \in region
                 THEN [tls[id] EXCEPT !.ownerFaction = f,
                          !.control = IF tls[id].isCapital THEN @ ELSE CLAIM_DEFENDERS]
                 ELSE tls[id]])

buildPentagonWorld == ClaimRegions(1, WithCapitals)

capitalsByFaction == CapitalOf

\* the tile nearest to the pentagon vertex of each faction, in the order of
\* the factions (uniqueClosestTileToPoint, lines 718-729)
NearestTiles == <<CapitalOf["f1"], CapitalOf["f2"]>>

\* variant: a vertex that resolves to a claimed capital keeps that tile
FallbackNone(cap, used) == cap

\* lines 802-810: the first direct neighbour, in DIRS order, that is a tile and
\* not yet a capital; the tile itself when there is none or it is not claimed
Fallback(cap, used) ==
    LET free == {k \in 1..Len(DIRS) :
                    /\ neighborsOf(cap[1], cap[2])[k] \in TileIds
                    /\ neighborsOf(cap[1], cap[2])[k] \notin used}
    IN IF cap \in used /\ free # {}
       THEN neighborsOf(cap[1], cap[2])[CHOOSE k \in free : \A j \in free : k <= j]
       ELSE cap

\* lines 796-813: the capital ids of the factions, one vertex after the other
RECURSIVE PickCapitals(_, _, _)
PickCapitals(i, nearest, caps) ==
    IF i > Len(FactionIds) THEN caps
    ELSE PickCapitals(i + 1, nearest, Append(caps, Fallback(nearest[i], Range(caps))))

\* lines 814-818: the tiles after the capitals caps have been marked, the
\* later faction overwriting the earlier one on a shared tile
RECURSIVE MarkCapitals(_, _, _)
MarkCapitals(i, caps, tls) ==
    IF i > Len(caps) THEN tls
    ELSE MarkCapitals(i + 1, caps,
            [tls EXCEPT ![caps[i]] = [ownerFaction |-> FactionIds[i], control |-> CLAIM_DEFENDERS,
                                      isCapital |-> TRUE, publicTroops |-> @.publicTroops]])

-----------------------------------------------------------------------------
(* Maps that are searched in insertion order: sequences of <<key, value>> *)

MapHas(m, k) == \E i \in 1..Len(m) : m[i][1] = k

MapGet(m, k, dflt) ==
    IF MapHas(m, k) THEN m[CHOOSE i \in 1..Len(m) : m[i][1] = k][2] ELSE dflt

\* Map.set: an existing key keeps its place, a new key goes last
MapSet(m, k, v) ==
    IF MapHas(m, k)
    THEN [i \in 1..Len(m) |-> IF m[i][1] = k THEN <<k, v>> ELSE m[i]]
    ELSE Append(m, <<k, v>>)

MapDelete(m, k) == SelectSeq(m, LAMBDA e : e[1] # k)

\* [...m.entries()].find(([, v]) => v === value)?.[0]
FindByValue(m, value, dflt) ==
    IF \E i \in 1..Len(m) : m[i][2] = value
    THEN m[CHOOSE i \in 1..Len(m) :
              m[i][2] = value /\ \A j \in 1..(i - 1) : m[j][2] # value][1]
    ELSE dflt

-----------------------------------------------------------------------------
(* Players and troops *)

\* p.troops[id] || 0
TroopsAt(p, id) == IF id \in DOMAIN p.troops THEN p.troops[id] ELSE 0

\* p.troops[id] = n
SetTroops(trp, id, n) == [x \in (DOMAIN trp) \cup {id} |-> IF x = id THEN n ELSE trp[x]]

\* delete p.troops[id]
DeleteTroops(trp, id) == [x \in (DOMAIN trp) \ {id} |-> trp[x]]

\* variant: the entry that reaches zero is kept
DebitTroopsKeepZero(trp, id, amount) ==
    SetTroops(trp, id, (IF id \in DOMAIN trp THEN trp[id] ELSE 0) - amount)

\* p.troops[id] = have - amount; if (p.troops[id] <= 0) delete p.troops[id]
DebitTroops(trp, id, amount) ==
    LET left == (IF id \in DOMAIN trp THEN trp[id] ELSE 0) - amount
    IN IF left <= 0 THEN DeleteTroops(trp, id) ELSE SetTroops(trp, id, left)

\* p.troops[id] = (p.troops[id] || 0) + amount
CreditTroops(trp, id, amount) ==
    SetTroops(trp, id, (IF id \in DOMAIN trp THEN trp[id] ELSE 0) + amount)

RECURSIVE SumTroops(_, _, _)
SumTroops(pls, toks, tileId) ==
    IF toks = {} THEN 0
    ELSE LET t == CHOOSE x \in toks : TRUE
         IN TroopsAt(pls[t], tileId) + SumTroops(pls, toks \ {t}, tileId)

\* recalcPublicTroops(tileId) (lines 857-862)
recalcPublicTroops(tls, pls, tileId) ==
    IF tileId \in DOMAIN tls
    THEN [tls EXCEPT ![tileId].publicTroops = SumTroops(pls, DOMAIN pls, tileId)]
    ELSE tls

\* recalcAllPublicTroops() (lines 863-867)
recalcAllPublicTroops(tls, pls) ==
    [id \in DOMAIN tls |->
        [tls[id] EXCEPT !.publicTroops = SumTroops(pls, DOMAIN pls, id)]]

\* Math.floor(Number(amount) || 0): the client's amount arrives in halves
\* (raw = 3 is 1.5), so that the floor does something
NormAmount(raw) == raw \div 2

RawAmounts == 0..(2 * MaxAmount)

-----------------------------------------------------------------------------
(* Numbers: producedPrecise is an IEEE-754 double (lines 1080-1083, 1207-1214) *)

\* A non-negative double is held by its exact value in binary fixed point:
\* whole + f1 / 2^26 + f2 / 2^52 + f3 / 2^78, with three limbs of 26 bits. This
\* holds every double of the production arithmetic exactly (values below 2^26
\* that are multiples of 2^-78; all of them are, for perSec >= 2^-25). Each
\* operation computes the exact result and rounds it to 53 significant bits,
\* to nearest, ties to even, as the code's arithmetic does.
LimbSize == 2 ^ 26

DblZero == [whole |-> 0, f1 |-> 0, f2 |-> 0, f3 |-> 0]

\* the double of a small non-negative integer
DblInt(n) == [whole |-> n, f1 |-> 0, f2 |-> 0, f3 |-> 0]

\* the position of the leading bit of n >= 1
RECURSIVE Log2(_)
Log2(n) == IF n <= 1 THEN 0 ELSE 1 + Log2(n \div 2)

\* the limbs brought back below 2^26, the excess carried upwards
DblCarryOf(whole, f1, f2, f3) ==
    LET g2 == f2 + (f3 \div LimbSize)
        g1 == f1 + (g2 \div LimbSize)
    IN [whole |-> whole + (g1 \div LimbSize), f1 |-> g1 % LimbSize,
        f2 |-> g2 % LimbSize, f3 |-> f3 % LimbSize]

\* the same, with the limbs evaluated once
DblCarry(whole, f1, f2, f3) ==
    CHOOSE r \in {DblCarryOf(v[1], v[2], v[3], v[4]) : v \in {<<whole, f1, f2, f3>>}} : TRUE

\* the number of low bits of the fixed-point value that do not fit into the
\* 53 bits of the significand
DblDropBits(x) ==
    IF x.whole > 0 THEN 26 + Log2(x.whole)
    ELSE IF x.f1 > 0 THEN Log2(x.f1)
    ELSE 0

\* the double nearest to the exact value x (+ a rest below the last limb when
\* sticky), ties to even
DblRoundOf(x, sticky) ==
    LET d == DblDropBits(x)
    IN IF d = 0 THEN x
       ELSE IF d <= 26
       THEN LET unit == 2 ^ d
                tail == x.f3 % unit
                half == unit \div 2
                odd == IF d < 26 THEN (x.f3 \div unit) % 2 = 1 ELSE x.f2 % 2 = 1
                up == tail > half \/ (tail = half /\ (sticky \/ odd))
            IN DblCarry(x.whole, x.f1, x.f2, x.f3 - tail + (IF up THEN unit ELSE 0))
       ELSE LET e == d - 26
                unit == 2 ^ e
                tail == x.f2 % unit
                half == unit \div 2
                odd == IF e < 26 THEN (x.f2 \div unit) % 2 = 1 ELSE x.f1 % 2 = 1
                up == tail > half \/ (tail = half /\ (x.f3 > 0 \/ sticky \/ odd))
            IN DblCarry(x.whole, x.f1, x.f2 - tail + (IF up THEN unit ELSE 0), 0)

\* the same, with the operand evaluated once
DblRound(x, sticky) == CHOOSE r \in {DblRoundOf(v, sticky) : v \in {x}} : TRUE

\* x + y: the exact sum, rounded
DblAdd(x, y) ==
    CHOOSE r \in {DblRound(DblCarry(v.whole + w.whole, v.f1 + w.f1, v.f2 + w.f2,
                                    v.f3 + w.f3), FALSE) : v \in {x}, w \in {y}} : TRUE

\* a / b for integers a >= 0 and 0 < b <= 2^18: long division, 13 bits at a
\* time; the rest of the division decides a tie
DblDiv(a, b) ==
    LET c == 2 ^ 13
        r0 == a % b
        q1 == (r0 * c) \div b
        r1 == (r0 * c) % b
        q2 == (r1 * c) \div b
        r2 == (r1 * c) % b
        q3 == (r2 * c) \div b
        r3 == (r2 * c) % b
        q4 == (r3 * c) \div b
        r4 == (r3 * c) % b
        q5 == (r4 * c) \div b
        r5 == (r4 * c) % b
        q6 == (r5 * c) \div b
        r6 == (r5 * c) % b
    IN DblRound([whole |-> a \div b, f1 |-> q1 * c + q2, f2 |-> q3 * c + q4,
                 f3 |-> q5 * c + q6], r6 # 0)

\* Math.max(0, x - n) for an integer n >= 0: the difference of a double and an
\* integer below it has no more bits than the double and is exact
DblMinusInt(x, n) == IF n > x.whole THEN DblZero ELSE [x EXCEPT !.whole = @ - n]

\* Math.min(n, x) for an integer n
DblMinInt(n, x) == CHOOSE r \in {IF v.whole >= n THEN DblInt(n) ELSE v : v \in {x}} : TRUE

\* Math.floor(p.producedPrecise)
FloorPrecise(x) == x.whole

\* p.reserveCap / (p.recruitDurationMs / 1000): recruitDurationMs is a whole
\* number of seconds, so the inner quotient is exact
PerSec(p) == DblDiv(p.reserveCap, p.recruitDurationMs \div 1000)

-----------------------------------------------------------------------------
(* Rate limiting (lines 935-949) *)

makeLimiter == [tokens |-> LIMITER_CAPACITY, last |-> now]

\* variant: the refill is not capped at the capacity
RefilledUncapped(lim) == lim.tokens + (now - lim.last) * LIMITER_REFILL_PER_SEC

\* the limiter after consume(limiter): refilled, and one token poorer if admitted
Refilled(lim) == Min(LIMITER_CAPACITY, lim.tokens + (now - lim.last) * LIMITER_REFILL_PER_SEC)

\* variant: an empty bucket admits the request as well
AdmitsAlways(lim) == TRUE

\* if (limiter.tokens >= cost), after the refill
Admits(lim) == Refilled(lim) >= 1

consume(lim) ==
    [tokens |-> IF Admits(lim) THEN Refilled(lim) - 1 ELSE Refilled(lim), last |-> now]

-----------------------------------------------------------------------------
(* Events: what a handler emits, in order.  Every handler below is a        *)
(* function of the state and its payload that yields the new values of the  *)
(* state it writes and the events it emits; the action applies it.          *)

Broadcast == -1

EvSessionError(s) == [ev |-> "session_error", to |-> s]
EvWorld(s) == [ev |-> "world", to |-> s]
EvErrorMsg(s, m) == [ev |-> "error_msg", to |-> s, message |-> m]
EvJoined(s, token) == [ev |-> "joined", to |-> s, token |-> token]
EvMeUpdate(s, token) == [ev |-> "me_update", to |-> s, token |-> token]
\* io.emit("tile_update", { tile: tiles.get(id) })
EvTileUpdate(tls, id) ==
    [ev |-> "tile_update", to |-> Broadcast, tile |-> id,
     publicTroops |-> IF id \in DOMAIN tls THEN tls[id].publicTroops ELSE -1]
EvCombatResult(fromId, targetId, survivors) ==
    [ev |-> "combat_result", to |-> Broadcast, fromId |-> fromId,
     targetId |-> targetId, survivors |-> survivors]
\* pushPlayersOnline() (lines 997-1000): every player of the players map
pushPlayersOnline(pls) == [ev |-> "players_online", to |-> Broadcast, list |-> DOMAIN pls]

-----------------------------------------------------------------------------
(* Initial state: the server has booted with no snapshot (lines 841-854) *)

Init ==
    /\ tiles = buildPentagonWorld
    /\ players = << >>
    /\ tokenToSocket = << >>
    /\ ipToToken = << >>
    /\ actionLimiters = << >>
    /\ sockets = [s \in SocketIds |-> [status |-> "unused", ip |-> 0, handlers |-> FALSE]]
    /\ now = 0
    /\ disk = NoFile
    /\ admitted = [x \in Tokens \X (0..MaxRecruitTicks) |-> 0]

\* the socket on which a handler runs: connected, with the handlers registered
Live(s) == sockets[s].status = "open" /\ sockets[s].handlers

\* io.sockets.sockets.get(sid): a socket is in the map while it is connected
InSocketMap(s) == s \in SocketIds /\ sockets[s].status = "open"

\* the token of the socket (lines 1075, 1091, 1116, 1144, 1194)
TokenOf(s) == FindByValue(tokenToSocket, s, NoToken)

-----------------------------------------------------------------------------
(* io.on("connection") (lines 1002-1017) *)

\* lines 1007-1014: the origin already has a token with a live socket
IpLocked(ip) ==
    /\ ~DISABLE_IP_LOCK
    /\ MapGet(ipToToken, ip, NoToken) # NoToken
    /\ MapHas(tokenToSocket, MapGet(ipToToken, ip, NoToken))

ConnectOut(s, ip) ==
    IF IpLocked(ip)
    THEN [sockets |-> [sockets EXCEPT ![s] = [status |-> "closed", ip |-> ip, handlers |-> FALSE]],
          events |-> <<EvSessionError(s)>>]
    ELSE [sockets |-> [sockets EXCEPT ![s] = [status |-> "open", ip |-> ip, handlers |-> TRUE]],
          events |-> <<EvWorld(s), pushPlayersOnline(players)>>]

\* the transport opens its next connection, s, from origin ip
Connect(s, ip) ==
    /\ sockets[s].status = "unused"
    /\ \A x \in SocketIds : x < s => sockets[x].status # "unused"
    /\ sockets' = ConnectOut(s, ip).sockets
    /\ UNCHANGED <<tiles, players, tokenToSocket, ipToToken, actionLimiters, now, disk, admitted>>

-----------------------------------------------------------------------------
(* socket.on("disconnect") (lines 1192-1201), as a function of the two maps *)

DisconnectT2S(t2s, s) ==
    LET token == FindByValue(t2s, s, NoToken)
    IN IF token # NoToken THEN MapDelete(t2s, token) ELSE t2s

DisconnectIp2T(t2s, ip2t, s) ==
    LET token == FindByValue(t2s, s, NoToken)
        ip == FindByValue(ip2t, token, 0)
    IN IF ~DISABLE_IP_LOCK /\ token # NoToken /\ ip # 0 THEN MapDelete(ip2t, ip) ELSE ip2t

DisconnectOut(s) ==
    IF sockets[s].handlers
    THEN [tokenToSocket |-> DisconnectT2S(tokenToSocket, s),
          ipToToken |-> DisconnectIp2T(tokenToSocket, ipToToken, s),
          events |-> <<pushPlayersOnline(players)>>]
    ELSE [tokenToSocket |-> tokenToSocket, ipToToken |-> ipToToken, events |-> << >>]

\* the transport reports the close of socket s: the client went away
Disconnect(s) ==
    /\ sockets[s].status = "open"
    /\ sockets' = [sockets EXCEPT ![s].status = "closed"]
    /\ tokenToSocket' = DisconnectOut(s).tokenToSocket
    /\ ipToToken' = DisconnectOut(s).ipToToken
    /\ UNCHANGED <<tiles, players, actionLimiters, now, disk, admitted>>

-----------------------------------------------------------------------------
(* socket.on("resume") (lines 1019-1036) *)

\* variant: only a token that is bound to a connection can be resumed
ResumeValidBound(token) ==
    token # NoToken /\ token \in DOMAIN players /\ MapGet(tokenToSocket, token, NoSocket) # NoSocket

\* lines 1020-1024: const p = token && players.get(token); if (!p) ...
ResumeValid(token) == token # NoToken /\ token \in DOMAIN players

\* variant: the older socket is left alone
KickedNobody(s, token) == NoSocket

\* lines 1026-1030: the older socket of the token is closed, if it is another
\* socket and still connected
Kicked(s, token) ==
    LET prevId == MapGet(tokenToSocket, token, NoSocket)
    IN IF prevId # NoSocket /\ prevId # s /\ InSocketMap(prevId)
       THEN prevId ELSE NoSocket

\* line 1029: prev.disconnect(true) closes the older socket and emits its
\* "disconnect" event inside the call, so the handler of lines 1192-1201 runs
\* on the maps before lines 1031-1032 bind the token to the new socket
ResumeOut(s, token) ==
    IF ~ResumeValid(token)
    THEN [tokenToSocket |-> tokenToSocket, ipToToken |-> ipToToken,
          actionLimiters |-> actionLimiters, sockets |-> sockets,
          events |-> <<EvErrorMsg(s, "Invalid or expired session.")>>]
    ELSE LET prevId == Kicked(s, token)
             runNow == prevId # NoSocket /\ sockets[prevId].handlers
             t2s == IF runNow THEN DisconnectT2S(tokenToSocket, prevId) ELSE tokenToSocket
             ip2t == IF runNow THEN DisconnectIp2T(tokenToSocket, ipToToken, prevId)
                     ELSE ipToToken
         IN [tokenToSocket |-> MapSet(t2s, token, s),
             ipToToken |-> IF DISABLE_IP_LOCK THEN ip2t ELSE MapSet(ip2t, sockets[s].ip, token),
             actionLimiters |-> IF token \in DOMAIN actionLimiters THEN actionLimiters
                                ELSE actionLimiters @@ (token :> makeLimiter),
             sockets |-> IF prevId # NoSocket
                         THEN [sockets EXCEPT ![prevId].status = "closed"]
                         ELSE sockets,
             events |-> (IF runNow THEN <<pushPlayersOnline(players)>> ELSE << >>)
                        \o <<EvJoined(s, token), pushPlayersOnline(players)>>]

Resume(s, token) ==
    /\ Live(s)
    /\ LET out == ResumeOut(s, token)
       IN /\ tokenToSocket' = out.tokenToSocket
          /\ ipToToken' = out.ipToToken
          /\ actionLimiters' = out.actionLimiters
          /\ sockets' = out.sockets
    /\ UNCHANGED <<tiles, players, now, disk, admitted>>

-----------------------------------------------------------------------------
(* socket.on("join") (lines 1038-1072) *)

\* crypto.randomBytes(16): a token no player has; the next unused name
FreshToken == Cardinality(DOMAIN players) + 1

\* String(name).slice(0, 24)
SliceName(name) == SubSeq(name, 1, Min(Len(name), NAME_MAX))

\* lines 1045-1056
NewPlayer(name, factionId) ==
    [name |-> SliceName(name), factionId |-> factionId, troops |-> << >>,
     producedPrecise |-> DblZero, produced |-> 0, inventory |-> 0,
     remainingMs |-> RECRUIT_DURATION_MS, recruitDurationMs |-> RECRUIT_DURATION_MS,
     reserveCap |-> RESERVE_CAP]

\* variant: the name is not looked at
JoinValidAnyName(name, factionId) == factionId \in Factions

\* line 1039
JoinValid(name, factionId) == Len(name) > 0 /\ factionId \in Factions

\* lines 1058-1061: the player with the starting garrison at the capital
JoinPlayer(name, factionId) ==
    LET p == NewPlayer(name, factionId)
    IN [p EXCEPT !.troops = CreditTroops(@, capitalsByFaction[factionId], START_TROOPS)]

\* line 1061: recalcPublicTroops(capId) runs before players.set(token, p)
\* (line 1065), so it sums over the players map without the new player
JoinTiles(token, p) == recalcPublicTroops(tiles, players, capitalsByFaction[p.factionId])

JoinOut(s, name, factionId) ==
    IF ~JoinValid(name, factionId)
    THEN [tiles |-> tiles, players |-> players, tokenToSocket |-> tokenToSocket,
          ipToToken |-> ipToToken, actionLimiters |-> actionLimiters,
          events |-> <<EvErrorMsg(s, "Invalid join payload.")>>]
    ELSE LET token == FreshToken
             p == JoinPlayer(name, factionId)
             tls == JoinTiles(token, p)
             pls == players @@ (token :> p)
         IN [tiles |-> tls,
             players |-> pls,
             tokenToSocket |-> MapSet(tokenToSocket, token, s),
             ipToToken |-> IF DISABLE_IP_LOCK THEN ipToToken
                           ELSE MapSet(ipToToken, sockets[s].ip, token),
             actionLimiters |-> [x \in (DOMAIN actionLimiters) \cup {token} |->
                                    IF x = token THEN makeLimiter ELSE actionLimiters[x]],
             events |-> <<EvTileUpdate(tls, capitalsByFaction[factionId]), EvJoined(s, token),
                          pushPlayersOnline(pls)>>]

Join(s, name, factionId) ==
    /\ Live(s)
    \* at most MaxPlayers players join
    /\ JoinValid(name, factionId) => FreshToken \in Tokens
    /\ LET out == JoinOut(s, name, factionId)
       IN /\ tiles' = out.tiles
          /\ players' = out.players
          /\ tokenToSocket' = out.tokenToSocket
          /\ ipToToken' = out.ipToToken
          /\ actionLimiters' = out.actionLimiters
    /\ UNCHANGED <<sockets, now, disk, admitted>>

-----------------------------------------------------------------------------
(* The mutating actions: each resolves the player and passes the limiter *)

\* const p = token && players.get(token); if (!p) return;
Resolved(s) ==
    LET token == TokenOf(s)
    IN token # NoToken /\ token \in DOMAIN players

\* if (!consume(actionLimiters.get(token))) return;
Admitted(s) == Resolved(s) /\ Admits(actionLimiters[TokenOf(s)])

\* the handler returned before the limiter
NoSessionOut ==
    [tiles |-> tiles, players |-> players, actionLimiters |-> actionLimiters, events |-> << >>]

\* the limiter was charged (or refused) and the handler changed nothing else
Charged(token) == [actionLimiters EXCEPT ![token] = consume(@)]

\* variant: a rejected request sends the player's troops back to the capital
RejectedOutRecall(token, evs) ==
    [tiles |-> tiles,
     players |-> [players EXCEPT ![token].troops =
                     (capitalsByFaction[players[token].factionId] :> START_TROOPS)],
     actionLimiters |-> Charged(token), events |-> evs]

RejectedOut(token, evs) ==
    [tiles |-> tiles, players |-> players, actionLimiters |-> Charged(token), events |-> evs]

\* the same writes, with the verdict of consume() entered in the history
ApplyCounted(s, out) ==
    /\ tiles' = out.tiles
    /\ players' = out.players
    /\ actionLimiters' = out.actionLimiters
    /\ admitted' = IF Resolved(s) /\ Admits(actionLimiters[TokenOf(s)])
                   THEN [admitted EXCEPT ![<<TokenOf(s), now>>] = @ + 1]
                   ELSE admitted
    /\ UNCHANGED <<tokenToSocket, ipToToken, sockets, now, disk>>

\* a handler's writes to the world, the players and the limiters
Apply(out) ==
    /\ tiles' = out.tiles
    /\ players' = out.players
    /\ actionLimiters' = out.actionLimiters
    /\ UNCHANGED <<tokenToSocket, ipToToken, sockets, now, disk, admitted>>

-----------------------------------------------------------------------------
(* socket.on("recruit_collect") (lines 1074-1088) *)

\* variant: the collect does not restart the production period
CollectPlayerKeepTimer(p) ==
    LET add == p.produced
    IN [p EXCEPT !.inventory = @ + add,
                 !.producedPrecise = DblMinusInt(@, add),
                 !.produced = 0]

\* variant: the accumulator is emptied, its fractional rest included
CollectPlayerEmptied(p) ==
    LET add == p.produced
    IN [p EXCEPT !.inventory = @ + add,
                 !.producedPrecise = DblZero,
                 !.produced = 0,
                 !.remainingMs = RECRUIT_DURATION_MS]

\* lines 1079-1086: the whole troops produced go to the inventory
CollectPlayer(p) ==
    LET add == p.produced
    IN [p EXCEPT !.inventory = @ + add,
                 !.producedPrecise = DblMinusInt(@, add),
                 !.produced = 0,
                 !.remainingMs = RECRUIT_DURATION_MS]

RecruitCollectOut(s) ==
    IF ~Resolved(s) THEN NoSessionOut
    ELSE LET token == TokenOf(s)
             p == players[token]
         IN IF Admits(actionLimiters[token]) /\ p.produced > 0
            THEN [tiles |-> tiles,
                  players |-> [players EXCEPT ![token] = CollectPlayer(p)],
                  actionLimiters |-> Charged(token),
                  events |-> <<EvMeUpdate(s, token)>>]
            ELSE RejectedOut(token, << >>)

RecruitCollect(s) == Live(s) /\ Apply(RecruitCollectOut(s))

-----------------------------------------------------------------------------
(* socket.on("deploy") (lines 1090-1113) *)

\* variant: every tile of the faction is eligible, connected or not
EligibleOwned(p) == {id \in DOMAIN tiles : tiles[id].ownerFaction = p.factionId}

\* lines 1101-1102: the tiles connected to the capital through the faction's tiles
Eligible(p) ==
    Range(bfsRegion(capitalsByFaction[p.factionId], tiles,
                    {id \in DOMAIN tiles : tiles[id].ownerFaction = p.factionId}, Infinity))

\* variant: the inventory is not compared with the amount
DeployValidNoStock(p, targetId, amount) == targetId \in DOMAIN tiles /\ amount >= 1

\* line 1098
DeployValid(p, targetId, amount) ==
    targetId \in DOMAIN tiles /\ amount >= 1 /\ p.inventory >= amount

\* variant: the inventory is not debited
DeployPlayerFree(p, targetId, amount) ==
    [p EXCEPT !.troops = CreditTroops(@, targetId, amount)]

\* lines 1108-1109
DeployPlayer(p, targetId, amount) ==
    [p EXCEPT !.inventory = @ - amount,
              !.troops = CreditTroops(@, targetId, amount)]

DeployOut(s, targetId, raw) ==
    IF ~Resolved(s) THEN NoSessionOut
    ELSE LET token == TokenOf(s)
             p == players[token]
             amount == NormAmount(raw)
         IN IF ~Admits(actionLimiters[token]) \/ ~DeployValid(p, targetId, amount)
            THEN RejectedOut(token, << >>)
            ELSE IF targetId \notin Eligible(p)
            THEN RejectedOut(token, <<EvErrorMsg(s, "Target not connected to your capital.")>>)
            ELSE LET pls == [players EXCEPT ![token] = DeployPlayer(p, targetId, amount)]
                     tls == recalcPublicTroops(tiles, pls, targetId)
                 IN [tiles |-> tls, players |-> pls, actionLimiters |-> Charged(token),
                     events |-> <<EvMeUpdate(s, token), EvTileUpdate(tls, targetId)>>]

Deploy(s, targetId, raw) == Live(s) /\ Apply(DeployOut(s, targetId, raw))

-----------------------------------------------------------------------------
(* socket.on("move") (lines 1115-1141) *)

\* line 1125 / 1155
Adjacent(fromId, toId) ==
    \E i \in 1..Len(DIRS) : neighborsOf(fromId[1], fromId[2])[i] = toId

\* variant: the tiles need not be neighbours
MoveValidAnyDistance(p, fromId, toId, amount) ==
    /\ fromId \in DOMAIN tiles /\ toId \in DOMAIN tiles /\ amount >= 1
    /\ tiles[fromId].ownerFaction = p.factionId
    /\ tiles[toId].ownerFaction = p.factionId
    /\ TroopsAt(p, fromId) >= amount

\* variant: the owner of the destination is not looked at
MoveValidAnyOwner(p, fromId, toId, amount) ==
    /\ fromId \in DOMAIN tiles /\ toId \in DOMAIN tiles /\ amount >= 1
    /\ Adjacent(fromId, toId)
    /\ tiles[fromId].ownerFaction = p.factionId
    /\ TroopsAt(p, fromId) >= amount

\* lines 1121-1130
MoveValid(p, fromId, toId, amount) ==
    /\ fromId \in DOMAIN tiles /\ toId \in DOMAIN tiles /\ amount >= 1
    /\ Adjacent(fromId, toId)
    /\ tiles[fromId].ownerFaction = p.factionId
    /\ tiles[toId].ownerFaction = p.factionId
    /\ TroopsAt(p, fromId) >= amount

\* lines 1132-1134
MovePlayer(p, fromId, toId, amount) ==
    [p EXCEPT !.troops = CreditTroops(DebitTroops(@, fromId, amount), toId, amount)]

MoveOut(s, fromId, toId, raw) ==
    IF ~Resolved(s) THEN NoSessionOut
    ELSE LET token == TokenOf(s)
             p == players[token]
             amount == NormAmount(raw)
         IN IF ~Admits(actionLimiters[token]) \/ ~MoveValid(p, fromId, toId, amount)
            THEN RejectedOut(token, << >>)
            ELSE LET pls == [players EXCEPT ![token] = MovePlayer(p, fromId, toId, amount)]
                     tls == recalcPublicTroops(recalcPublicTroops(tiles, pls, fromId), pls, toId)
                 IN [tiles |-> tls, players |-> pls, actionLimiters |-> Charged(token),
                     events |-> <<EvMeUpdate(s, token), EvTileUpdate(tls, fromId),
                                  EvTileUpdate(tls, toId)>>]

Move(s, fromId, toId, raw) == Live(s) /\ Apply(MoveOut(s, fromId, toId, raw))

-----------------------------------------------------------------------------
(* socket.on("attack") (lines 1143-1190) *)

\* variant: the target need not be a neighbour of fromTile
AttackValidAnywhere(p, fromId, targetId, amount) ==
    /\ fromId \in DOMAIN tiles /\ targetId \in DOMAIN tiles /\ amount >= 1
    /\ tiles[fromId].ownerFaction = p.factionId
    /\ TroopsAt(p, fromId) >= amount

\* lines 1149-1156: the checks before the capital check
AttackValid(p, fromId, targetId, amount) ==
    /\ fromId \in DOMAIN tiles /\ targetId \in DOMAIN tiles /\ amount >= 1
    /\ tiles[fromId].ownerFaction = p.factionId
    /\ TroopsAt(p, fromId) >= amount
    /\ Adjacent(fromId, targetId)

\* variant: no tile is treated as a capital by the attack handler
CapitalTargetNever(targetId) == FALSE

\* line 1157
CapitalTarget(targetId) == tiles[targetId].isCapital

\* variant: no attack captures
CapturesNever(amount, defenders) == FALSE

\* variant: a tie captures
CapturesOnTie(amount, defenders) == amount >= defenders

\* line 1163
Captures(amount, defenders) == amount > defenders

\* variant: the defenders cost the attacker nothing
SurvivorsUndiminished(amount, defenders) == amount

\* line 1168
Survivors(amount, defenders) == amount - defenders

\* lines 1165-1171 and 1181-1182: the attacker's troops
AttackPlayer(p, fromId, targetId, amount, defenders) ==
    IF Captures(amount, defenders)
    THEN [p EXCEPT !.troops = CreditTroops(DebitTroops(@, fromId, amount), targetId,
                                           Survivors(amount, defenders))]
    ELSE [p EXCEPT !.troops = DebitTroops(@, fromId, amount)]

\* variant: a repelled attack leaves the control of the target as it was
AttackTileStale(t, factionId, amount, defenders) ==
    IF Captures(amount, defenders)
    THEN [t EXCEPT !.ownerFaction = factionId, !.control = 0]
    ELSE t

\* lines 1169-1170 and 1183: the target tile
AttackTile(t, factionId, amount, defenders) ==
    IF Captures(amount, defenders)
    THEN [t EXCEPT !.ownerFaction = factionId, !.control = 0]
    ELSE [t EXCEPT !.control = defenders - amount]

\* lines 1173-1174 and 1185: the recompute of publicTroops
AttackRecalc(tls, pls, fromId, targetId, captured) ==
    IF captured
    THEN recalcPublicTroops(recalcPublicTroops(tls, pls, fromId), pls, targetId)
    ELSE recalcPublicTroops(tls, pls, fromId)

\* variant: a capture also removes the troops that the other players hold on
\* the captured tile
AttackPlayersEvict(token, fromId, targetId, amount, defenders) ==
    [t \in DOMAIN players |->
        IF t = token
        THEN AttackPlayer(players[t], fromId, targetId, amount, defenders)
        ELSE IF Captures(amount, defenders)
        THEN [players[t] EXCEPT !.troops = DeleteTroops(@, targetId)]
        ELSE players[t]]

\* the players map after lines 1162-1183: p is the one entry written
AttackPlayers(token, fromId, targetId, amount, defenders) ==
    [players EXCEPT ![token] = AttackPlayer(@, fromId, targetId, amount, defenders)]

AttackOut(s, fromId, targetId, raw) ==
    IF ~Resolved(s) THEN NoSessionOut
    ELSE LET token == TokenOf(s)
             p == players[token]
             amount == NormAmount(raw)
         IN IF ~Admits(actionLimiters[token]) \/ ~AttackValid(p, fromId, targetId, amount)
            THEN RejectedOut(token, << >>)
            ELSE IF CapitalTarget(targetId)
            THEN RejectedOut(token, <<EvErrorMsg(s, "Capitals cannot be conquered.")>>)
            ELSE LET defenders == tiles[targetId].control
                     captured == Captures(amount, defenders)
                     pls == AttackPlayers(token, fromId, targetId, amount, defenders)
                     tls == AttackRecalc(
                                [tiles EXCEPT ![targetId] =
                                    AttackTile(@, p.factionId, amount, defenders)],
                                pls, fromId, targetId, captured)
                 IN [tiles |-> tls, players |-> pls, actionLimiters |-> Charged(token),
                     events |-> <<EvMeUpdate(s, token)>>
                                \o (IF captured
                                    THEN <<EvCombatResult(fromId, targetId,
                                                          Survivors(amount, defenders))>>
                                    ELSE << >>)
                                \o <<EvTileUpdate(tls, fromId), EvTileUpdate(tls, targetId)>>]

Attack(s, fromId, targetId, raw) == Live(s) /\ Apply(AttackOut(s, fromId, targetId, raw))

-----------------------------------------------------------------------------
(* Recruitment tick (lines 1205-1220) *)

\* variant: the accumulator is not capped at reserveCap
TickPlayerUncapped(p) ==
    LET precise == IF p.remainingMs > 0 THEN DblAdd(p.producedPrecise, PerSec(p))
                   ELSE p.producedPrecise
    IN [p EXCEPT !.remainingMs = IF @ > 0 THEN Max(0, @ - TICK_MS) ELSE @,
                 !.producedPrecise = precise,
                 !.produced = FloorPrecise(precise)]

\* lines 1207-1215: one player's production in one tick
TickPlayer(p) ==
    LET precise == IF p.remainingMs > 0
                   THEN DblMinInt(p.reserveCap, DblAdd(p.producedPrecise, PerSec(p)))
                   ELSE DblMinInt(p.reserveCap, p.producedPrecise)
    IN [p EXCEPT !.remainingMs = IF @ > 0 THEN Max(0, @ - TICK_MS) ELSE @,
                 !.producedPrecise = precise,
                 !.produced = FloorPrecise(precise)]

\* the me_update of every player whose socket is live, in the order of the players map
RECURSIVE TickEvents(_)
TickEvents(t) ==
    IF t > MaxPlayers THEN << >>
    ELSE (IF t \in DOMAIN players /\ InSocketMap(MapGet(tokenToSocket, t, NoSocket))
          THEN <<EvMeUpdate(MapGet(tokenToSocket, t, NoSocket), t)>> ELSE << >>)
         \o TickEvents(t + 1)

\* variant: only the players with a bound connection produce
TickOfOnline(t) == IF MapHas(tokenToSocket, t) THEN TickPlayer(players[t]) ELSE players[t]

\* line 1206: for (const p of players.values()), the player of token t
TickOf(t) == TickPlayer(players[t])

\* the timer fires: the clock has advanced by one second
TickStep ==
    /\ now' = now + 1
    /\ players' = [t \in DOMAIN players |-> TickOf(t)]
    /\ UNCHANGED <<tiles, tokenToSocket, ipToToken, actionLimiters, sockets, disk, admitted>>

\* the timer fires once a second, MaxTicks times in a run of the game
Tick == now < MaxTicks /\ TickStep

\* the timer fires once a second, MaxRecruitTicks times in a run
LongTick == now < MaxRecruitTicks /\ TickStep

-----------------------------------------------------------------------------
(* Persistence (lines 869-932) *)

\* a file whose text JSON.parse rejects, and the test for the others
Unparsable == [text |-> "{"]
Parsable(data) == "text" \notin DOMAIN data

\* The origin of a connection is the text of a header or an address (line
\* 1003). The origins 1 and 2 of the model are texts that read as array
\* indices ("7" and "3"), the other origins are texts that do not ("10.0.0.1")
IndexLike(ip) == ip \in {1, 2}
ArrayIndex(ip) == IF ip = 1 THEN 7 ELSE 3

\* the entries whose keys are array indices, in ascending order of the index
RECURSIVE IndexOrder(_)
IndexOrder(entries) ==
    IF entries = {} THEN << >>
    ELSE LET e == CHOOSE x \in entries :
                     \A y \in entries : ArrayIndex(x[1]) <= ArrayIndex(y[1])
         IN <<e>> \o IndexOrder(entries \ {e})

\* Object.fromEntries(m) (line 888), as JSON.stringify writes it and
\* Object.entries (line 916) reads it: an object lists the keys that are array
\* indices first, in ascending order, then the other keys in insertion order
ObjectFromEntries(m) ==
    IndexOrder({m[i] : i \in {j \in 1..Len(m) : IndexLike(m[j][1])}})
        \o SelectSeq(m, LAMBDA e : ~IndexLike(e[1]))

\* snapshot() (lines 869-892): what is written to PERSIST_FILE
SnapshotData ==
    [tiles |-> tiles, players |-> players,
     ipToToken |-> IF DISABLE_IP_LOCK THEN << >> ELSE ObjectFromEntries(ipToToken)]

Snapshot ==
    /\ disk' = <<SnapshotData>>
    /\ disk' # disk
    /\ UNCHANGED <<tiles, players, tokenToSocket, ipToToken, actionLimiters, sockets, now, admitted>>

\* loadSnapshot() (lines 894-928) on a freshly booted process
LoadedTiles(data) == recalcAllPublicTroops(data.tiles, data.players)

\* the interval callback's snapshot() throws (mkdirSync or writeFileSync
\* fails): the error is caught (line 931); the file is as it was, or holds the
\* part that was written
SnapshotFails ==
    /\ disk' \in {disk, <<Unparsable>>}
    /\ disk' # disk
    /\ UNCHANGED <<tiles, players, tokenToSocket, ipToToken, actionLimiters, sockets, now, admitted>>

\* PERSIST_FILE is replaced from outside by valid JSON that is not a whole
\* snapshot: {} (no world), or a snapshot without its players
ForeignFile ==
    /\ disk # NoFile /\ DOMAIN disk[1] = {"tiles", "players", "ipToToken"}
    /\ disk' \in {<<[ipToToken |-> disk[1].ipToToken]>>, <<[tiles |-> disk[1].tiles]>>}
    /\ UNCHANGED <<tiles, players, tokenToSocket, ipToToken, actionLimiters, sockets, now, admitted>>

\* the memory of a process that has generated its world (lines 839-846)
Booted == [tiles |-> buildPentagonWorld, players |-> << >>, ipToToken |-> << >>]

\* the load throws: JSON.parse rejects the text, or data.world.tiles is missing
LoadFails(file) ==
    file # NoFile /\ (~Parsable(file[1]) \/ "tiles" \notin DOMAIN file[1])

\* loadSnapshot() (lines 894-928) on memory mem: the tiles, the players and
\* the origin map afterwards
loadSnapshot(file, mem) ==
    IF file = NoFile THEN mem
    ELSE LET data == file[1]
         IN IF ~Parsable(data) THEN mem
            \* tiles.clear() (line 900) has run when data.world.tiles throws (line 901)
            ELSE IF "tiles" \notin DOMAIN data THEN [mem EXCEPT !.tiles = << >>]
            ELSE LET pls == IF "players" \in DOMAIN data THEN data.players ELSE << >>
                 IN [tiles |-> recalcAllPublicTroops(data.tiles, pls),
                     players |-> pls,
                     ipToToken |-> IF ~DISABLE_IP_LOCK /\ "ipToToken" \in DOMAIN data
                                   THEN data.ipToToken ELSE mem.ipToToken]

\* the process restarts: the world is rebuilt, the snapshot (if any) is loaded,
\* and every connection and limiter of the old process is gone
Restart ==
    /\ LET mem == loadSnapshot(disk, Booted)
       IN /\ tiles' = mem.tiles
          /\ players' = mem.players
          /\ ipToToken' = mem.ipToToken
    /\ tokenToSocket' = << >>
    /\ actionLimiters' = << >>
    /\ sockets' = [s \in SocketIds |->
                      IF sockets[s].status = "open"
                      THEN [sockets[s] EXCEPT !.status = "closed"] ELSE sockets[s]]
    /\ UNCHANGED <<now, disk, admitted>>

-----------------------------------------------------------------------------

TileInputs == TileIds \cup {NoTile}
NameInputs == {<< >>, <<"a">>}
FactionInputs == Factions \cup {"fx"}
TokenInputs == Tokens \cup {NoToken}

\* connection s comes from this origin
OriginOf(s) == ((s - 1) % NumIps) + 1

\* The requests of Next.  A request that is dropped without an event changes
\* at most the sender's limiter, whatever its payload (NoSessionOut,
\* RejectedOut), so in Next one dropped payload stands for all of them: a
\* move or an attack names two neighbours or <<NoTile, NoTile>>, an amount is
\* 0.5 or whole.  The properties below quantify over every payload.
TilePairs == {pr \in TileIds \X TileIds : Adjacent(pr[1], pr[2])} \cup {<<NoTile, NoTile>>}
SentAmounts == {1} \cup {2 * k : k \in 1..MaxAmount}
Sent(out, standsForDropped) == out.events # << >> \/ standsForDropped

\* the game: clients connect, each from its own origin, join and play
Next ==
    \/ \E s \in SocketIds : Connect(s, OriginOf(s))
    \/ \E s \in SocketIds, n \in NameInputs, f \in FactionInputs : Join(s, n, f)
    \/ \E s \in SocketIds : RecruitCollect(s)
    \/ \E s \in SocketIds, t \in TileInputs, a \in SentAmounts :
          /\ Sent(DeployOut(s, t, a), t = NoTile /\ a = 1)
          /\ Deploy(s, t, a)
    \/ \E s \in SocketIds, pr \in TilePairs, a \in SentAmounts :
          /\ Sent(MoveOut(s, pr[1], pr[2], a), pr[1] = NoTile /\ a = 1)
          /\ Move(s, pr[1], pr[2], a)
    \/ \E s \in SocketIds, pr \in TilePairs, a \in SentAmounts :
          /\ Sent(AttackOut(s, pr[1], pr[2], a), pr[1] = NoTile /\ a = 1)
          /\ Attack(s, pr[1], pr[2], a)
    \/ Tick

Spec == Init /\ [][Next]_vars

\* sessions: clients connect from any origin, join, resume and go away
NextSession ==
    \/ \E s \in SocketIds, ip \in Ips : Connect(s, ip)
    \/ \E s \in SocketIds, n \in NameInputs, f \in FactionInputs : Join(s, n, f)
    \/ \E s \in SocketIds, token \in TokenInputs : Resume(s, token)
    \/ \E s \in SocketIds : Disconnect(s)
    \/ Tick

SpecSession == Init /\ [][NextSession]_vars

\* recruitment: clients connect, join, collect and go away while the timer runs
NextRecruit ==
    \/ \E s \in SocketIds : Connect(s, OriginOf(s))
    \/ \E s \in SocketIds, f \in Factions : Join(s, <<"a">>, f)
    \/ \E s \in SocketIds : RecruitCollect(s)
    \/ \E s \in SocketIds : Disconnect(s)
    \/ LongTick

SpecRecruit == Init /\ [][NextRecruit]_vars

\* players who never collect, under a timer that keeps firing
NextIdle ==
    \/ \E s \in SocketIds : Connect(s, OriginOf(s))
    \/ \E s \in SocketIds, f \in Factions : Join(s, <<"a">>, f)
    \/ \E s \in SocketIds : Disconnect(s)
    \/ LongTick

SpecIdle == Init /\ [][NextIdle]_vars /\ WF_vars(LongTick)

\* persistence: players join while the timer runs, snapshots are written or
\* fail, the file is damaged, and the process restarts on what the disk holds
NextPersist ==
    \/ \E s \in SocketIds : Connect(s, OriginOf(s))
    \/ \E s \in SocketIds, f \in Factions : Join(s, <<"a">>, f)
    \/ Tick
    \/ Snapshot
    \/ SnapshotFails
    \/ ForeignFile
    \/ Restart

SpecPersist == Init /\ [][NextPersist]_vars

\* a move whose admission is entered in the history
CountedMove(s, fromId, toId, raw) ==
    Live(s) /\ ApplyCounted(s, MoveOut(s, fromId, toId, raw))

\* the timer fires once a second, MaxLimiterTicks times in a run
LimiterTick == now < MaxLimiterTicks /\ TickStep

\* rate limiting: players join and send requests as fast as they like while
\* the clock advances; the requests are moves that name no tile, which pass
\* the limiter like any other request and change nothing else
NextLimiter ==
    \/ \E s \in SocketIds : Connect(s, OriginOf(s))
    \/ \E s \in SocketIds, f \in Factions : Join(s, <<"a">>, f)
    \/ \E s \in SocketIds, raw \in {0, 2} : CountedMove(s, NoTile, NoTile, raw)
    \/ LimiterTick

SpecLimiter == Init /\ [][NextLimiter]_vars

-----------------------------------------------------------------------------
(* Properties *)

\* every payload a client may send
AmountOf(raw) == NormAmount(raw)

RECURSIVE SumOver(_, _)
SumOver(f, S) ==
    IF S = {} THEN 0
    ELSE LET x == CHOOSE y \in S : TRUE IN f[x] + SumOver(f, S \ {x})

\* sum(p.troops) + p.inventory
Total(p) == SumOver(p.troops, DOMAIN p.troops) + p.inventory

\* the player's troops at the tile, counting a missing entry as 0
Entry(p, id) == IF id \in DOMAIN p.troops THEN p.troops[id] ELSE 0

\* the sum, over all players of the players map, of the troop entry for the tile
PlayersOn(id) ==
    SumOver([t \in DOMAIN players |-> Entry(players[t], id)], DOMAIN players)

\* C1: every tile's publicTroops equals the sum over all players of the
\* player's troop entry for that tile
C1_PublicTroopsIsSum ==
    \A id \in DOMAIN tiles : tiles[id].publicTroops = PlayersOn(id)

\* C2: every entry stored in a troops map is an integer >= 1
C2_TroopEntriesPositive ==
    \A t \in DOMAIN players : \A id \in DOMAIN players[t].troops :
        players[t].troops[id] \in Nat /\ players[t].troops[id] >= 1

\* C2 witness: a player has emptied a tile (the entry that reached zero is
\* gone) and holds troops elsewhere
C2_Witness ==
    \E t \in DOMAIN players :
        /\ capitalsByFaction[players[t].factionId] \notin DOMAIN players[t].troops
        /\ DOMAIN players[t].troops # {}

-----------------------------------------------------------------------------
(* Attacks (C3 - C6) *)

Player(s) == players[TokenOf(s)]

\* the request passes every check of the attack handler that precedes the
\* capital check
OtherwiseValidAttack(s, fromId, targetId, raw) ==
    /\ Live(s) /\ Admitted(s)
    /\ fromId \in DOMAIN tiles /\ targetId \in DOMAIN tiles
    /\ AmountOf(raw) >= 1
    /\ tiles[fromId].ownerFaction = Player(s).factionId
    /\ Adjacent(fromId, targetId)
    /\ AmountOf(raw) <= Entry(Player(s), fromId)

Capitals == {id \in DOMAIN tiles : tiles[id].isCapital}

\* C3: every capital keeps the ownerFaction, isCapital flag and control it was
\* generated with; an attack request whose target is a capital changes no tile
\* and no player, whatever its other fields, and an attack on a capital (a
\* request that passes the checks before the capital check) is rejected with
\* error_msg
C3_CapitalsImmune ==
    /\ \A f \in Factions :
          LET c == capitalsByFaction[f]
          IN /\ tiles[c].isCapital
             /\ tiles[c].ownerFaction = f
             /\ tiles[c].control = buildPentagonWorld[c].control
    /\ \A s \in SocketIds, fromId \in TileInputs, targetId \in TileIds, raw \in RawAmounts :
          (Live(s) /\ targetId \in Capitals) =>
              LET out == AttackOut(s, fromId, targetId, raw)
              IN /\ out.tiles = tiles /\ out.players = players
                 /\ OtherwiseValidAttack(s, fromId, targetId, raw)
                        => out.events = <<EvErrorMsg(s, "Capitals cannot be conquered.")>>

\* C3 witness: a player holds enough troops next to an enemy capital to attack it
C3_Witness ==
    \E s \in SocketIds, fromId \in TileIds, targetId \in TileIds :
        /\ OtherwiseValidAttack(s, fromId, targetId, 2 * MaxAmount)
        /\ targetId \in Capitals
        /\ tiles[targetId].ownerFaction # Player(s).factionId

\* C4: for an otherwise valid attack on a non-capital tile, amount = control
\* leaves the owner unchanged, and amount = control + 1 makes the attacker's
\* faction the owner and credits exactly 1 troop to the attacker at the target
C4_TieAndOneOver ==
    \A s \in SocketIds, fromId \in TileIds, targetId \in TileIds, raw \in RawAmounts :
        (OtherwiseValidAttack(s, fromId, targetId, raw) /\ targetId \notin Capitals) =>
            LET out == AttackOut(s, fromId, targetId, raw)
                amount == AmountOf(raw)
                control == tiles[targetId].control
            IN /\ amount = control =>
                      out.tiles[targetId].ownerFaction = tiles[targetId].ownerFaction
               /\ amount = control + 1 =>
                      /\ out.tiles[targetId].ownerFaction = Player(s).factionId
                      /\ Entry(out.players[TokenOf(s)], targetId)
                             = Entry(Player(s), targetId) + 1

\* C4 witness: an attacker of another faction can send exactly the control of
\* the target, and can send one more
C4_Witness ==
    \E s \in SocketIds, fromId \in TileIds, targetId \in TileIds :
        /\ Resolved(s)
        /\ targetId \notin Capitals
        /\ tiles[targetId].ownerFaction # Player(s).factionId
        /\ tiles[targetId].control >= 1
        /\ OtherwiseValidAttack(s, fromId, targetId, 2 * tiles[targetId].control)
        /\ OtherwiseValidAttack(s, fromId, targetId, 2 * (tiles[targetId].control + 1))

\* C5: for every amount and every control D of the target: if amount > D the
\* attacker loses amount at fromTile, gains amount - D at the target, the
\* target's owner becomes the attacker's faction and its control 0; if
\* amount <= D the attacker loses amount at fromTile, the control becomes
\* D - amount, the owner is unchanged and the attacker gains nothing at the target
C5_AttackResolution ==
    \A s \in SocketIds, fromId \in TileIds, targetId \in TileIds, raw \in RawAmounts :
        (OtherwiseValidAttack(s, fromId, targetId, raw) /\ targetId \notin Capitals) =>
            LET out == AttackOut(s, fromId, targetId, raw)
                amount == AmountOf(raw)
                D == tiles[targetId].control
                before == Player(s)
                after == out.players[TokenOf(s)]
            IN /\ Entry(after, fromId) = Entry(before, fromId) - amount
               /\ IF amount > D
                  THEN /\ Entry(after, targetId) = Entry(before, targetId) + (amount - D)
                       /\ out.tiles[targetId].ownerFaction = before.factionId
                       /\ out.tiles[targetId].control = 0
                  ELSE /\ Entry(after, targetId) = Entry(before, targetId)
                       /\ out.tiles[targetId].ownerFaction = tiles[targetId].ownerFaction
                       /\ out.tiles[targetId].control = D - amount

\* C5 witness: against a defended tile of another faction the attacker holds
\* more troops than the defenders, so both branches of the rule can be taken
C5_Witness ==
    \E s \in SocketIds, fromId \in TileIds, targetId \in TileIds, raw \in RawAmounts :
        /\ Resolved(s)
        /\ targetId \notin Capitals
        /\ tiles[targetId].ownerFaction # Player(s).factionId
        /\ tiles[targetId].control >= 1
        /\ AmountOf(raw) > tiles[targetId].control
        /\ OtherwiseValidAttack(s, fromId, targetId, raw)
        /\ Entry(Player(s), targetId) = 0

\* C6: when two sessions attack the same non-capital tile of control C with
\* a1 <= C, a2 <= C and a1 + a2 > C, the attack handled first is repelled and
\* leaves control C - a1, and the other one is resolved against C - a1 (it
\* captures with a2 - (C - a1) survivors), never against the original C
C6_AttacksSerialized ==
    [][(players' # players /\ now' = now) =>
          \A s1 \in SocketIds, from1 \in TileIds, targetId \in TileIds, r1 \in SentAmounts :
              LET C == tiles[targetId].control
                  a1 == AmountOf(r1)
              IN (/\ targetId \notin Capitals
                  /\ a1 <= C
                  /\ Adjacent(from1, targetId)
                  /\ OtherwiseValidAttack(s1, from1, targetId, r1)
                  /\ Attack(s1, from1, targetId, r1))
                 => /\ tiles'[targetId].control = C - a1
                    /\ tiles'[targetId].ownerFaction = tiles[targetId].ownerFaction
                    /\ \A s2 \in SocketIds, from2 \in TileIds, r2 \in RawAmounts :
                          (/\ TokenOf(s2) # TokenOf(s1)
                           /\ AmountOf(r2) <= C
                           /\ a1 + AmountOf(r2) > C
                           /\ OtherwiseValidAttack(s2, from2, targetId, r2)')
                          => LET out == AttackOut(s2, from2, targetId, r2)'
                                 second == TokenOf(s2)'
                             IN /\ out.tiles[targetId].control = 0
                                /\ out.tiles[targetId].ownerFaction
                                       = players'[second].factionId
                                /\ Entry(out.players[second], targetId)
                                       = Entry(players'[second], targetId)
                                           + (AmountOf(r2) - (C - a1))
      ]_vars

\* C6 witness: two sessions of different players can each attack the same
\* non-capital tile with an amount that does not exceed its control, and the
\* two amounts together exceed it
C6_Witness ==
    \E s1 \in SocketIds, s2 \in SocketIds, f1 \in TileIds, f2 \in TileIds,
       targetId \in TileIds, r1 \in RawAmounts, r2 \in RawAmounts :
        /\ TokenOf(s1) # TokenOf(s2)
        /\ targetId \notin Capitals
        /\ OtherwiseValidAttack(s1, f1, targetId, r1)
        /\ OtherwiseValidAttack(s2, f2, targetId, r2)
        /\ AmountOf(r1) <= tiles[targetId].control
        /\ AmountOf(r2) <= tiles[targetId].control
        /\ AmountOf(r1) + AmountOf(r2) > tiles[targetId].control

-----------------------------------------------------------------------------
(* Deploy, move and the troop ledger (C7 - C10) *)

\* the tiles reached from the capital of the player's faction through tiles
\* owned by that faction, as a least fixed point
RECURSIVE Grow(_, _)
Grow(S, passable) ==
    LET more == S \cup {id \in passable : \E x \in S : Adjacent(x, id)}
    IN IF more = S THEN S ELSE Grow(more, passable)

ConnectedToCapital(p) ==
    Grow({capitalsByFaction[p.factionId]},
         {id \in DOMAIN tiles : tiles[id].ownerFaction = p.factionId})

\* C7: for every player, target and amount, a deploy to a target outside the
\* set reached from the capital through the faction's tiles is rejected: the
\* inventory, the troops and every tile's publicTroops are unchanged
C7_UnconnectedDeployRejected ==
    \A s \in SocketIds, targetId \in TileInputs, raw \in RawAmounts :
        (Live(s) /\ Resolved(s) /\ targetId \notin ConnectedToCapital(Player(s))) =>
            LET out == DeployOut(s, targetId, raw)
            IN /\ out.players = players
               /\ out.tiles = tiles

\* C7 witness: an admitted player with troops in the inventory whose faction
\* owns a tile that is cut off from its capital
C7_Witness ==
    \E s \in SocketIds, targetId \in TileIds :
        /\ Live(s) /\ Admitted(s)
        /\ Player(s).inventory >= 1
        /\ tiles[targetId].ownerFaction = Player(s).factionId
        /\ targetId \notin ConnectedToCapital(Player(s))

\* the total of player t in a players map, 0 before the player exists
TotalIn(pls, t) == IF t \in DOMAIN pls THEN Total(pls[t]) ELSE 0

\* C8: sum(P.troops) + P.inventory is START_TROOPS when P joins, grows by
\* P.produced at P's recruit_collect, shrinks by amount at P's repelled attack
\* and by the target's control at P's capturing attack, and is unchanged by P's
\* move and deploy, by the tick and by every action of another player
C8_TroopLedger ==
    /\ \A s \in SocketIds, name \in NameInputs, factionId \in FactionInputs :
          Live(s) =>
              LET out == JoinOut(s, name, factionId)
              IN \A t \in DOMAIN out.players :
                    TotalIn(out.players, t)
                        = IF t \in DOMAIN players THEN Total(players[t]) ELSE START_TROOPS
    /\ \A s \in SocketIds :
          Live(s) =>
              LET out == RecruitCollectOut(s)
              IN \A t \in DOMAIN players :
                    TotalIn(out.players, t)
                        = Total(players[t])
                            + (IF t = TokenOf(s) /\ Admitted(s) THEN players[t].produced ELSE 0)
    /\ \A s \in SocketIds, targetId \in TileInputs, raw \in RawAmounts :
          Live(s) =>
              LET out == DeployOut(s, targetId, raw)
              IN \/ out.players = players
                 \/ \A t \in DOMAIN players : TotalIn(out.players, t) = Total(players[t])
    /\ \A s \in SocketIds, fromId \in TileInputs, toId \in TileInputs, raw \in RawAmounts :
          Live(s) =>
              LET mv == MoveOut(s, fromId, toId, raw)
                  at == AttackOut(s, fromId, toId, raw)
                  fought == OtherwiseValidAttack(s, fromId, toId, raw) /\ toId \notin Capitals
              IN /\ \/ mv.players = players
                    \/ \A t \in DOMAIN players : TotalIn(mv.players, t) = Total(players[t])
                 /\ \/ ~fought /\ at.players = players
                    \/ \A t \in DOMAIN players :
                          TotalIn(at.players, t)
                              = Total(players[t])
                                  - (IF t = TokenOf(s) /\ fought
                                     THEN (IF AmountOf(raw) > tiles[toId].control
                                           THEN tiles[toId].control ELSE AmountOf(raw))
                                     ELSE 0)
    /\ \A t \in DOMAIN players : Total(TickPlayer(players[t])) = Total(players[t])

\* C8 witness: one player's total has grown past the starting garrison by a
\* collect, another player's total has shrunk by an attack
C8_Witness ==
    /\ \E t \in DOMAIN players : Total(players[t]) > START_TROOPS
    /\ \E t \in DOMAIN players : Total(players[t]) < START_TROOPS

\* C9: an admitted deploy of an integer amount with 1 <= amount <= inventory to
\* a capital-connected tile takes exactly amount from the inventory and adds
\* exactly amount to the player's troops at the target; a deploy with
\* amount > inventory or amount < 1 leaves inventory and troops unchanged
C9_DeployEffect ==
    \A s \in SocketIds, targetId \in TileInputs, raw \in RawAmounts :
        (Live(s) /\ Admitted(s)) =>
            LET out == DeployOut(s, targetId, raw)
                amount == AmountOf(raw)
                before == Player(s)
                after == out.players[TokenOf(s)]
            IN /\ (/\ amount >= 1 /\ amount <= before.inventory
                   /\ targetId \in ConnectedToCapital(before))
                  => /\ after.inventory = before.inventory - amount
                     /\ Entry(after, targetId) = Entry(before, targetId) + amount
                     /\ \A id \in TileIds \ {targetId} : Entry(after, id) = Entry(before, id)
               /\ (amount > before.inventory \/ amount < 1)
                  => /\ after.inventory = before.inventory
                     /\ after.troops = before.troops

\* C9 witness: an admitted player holds inventory, so that a deploy within the
\* inventory and a deploy beyond it are both possible
C9_Witness ==
    \E s \in SocketIds :
        /\ Live(s) /\ Admitted(s)
        /\ Player(s).inventory >= 1
        /\ Player(s).inventory < MaxAmount

\* the conditions of a move, stated on the request and the current world
MoveConditions(p, fromId, toId, amount) ==
    /\ fromId \in DOMAIN tiles /\ toId \in DOMAIN tiles
    /\ Adjacent(fromId, toId)
    /\ tiles[fromId].ownerFaction = p.factionId
    /\ tiles[toId].ownerFaction = p.factionId
    /\ 1 <= amount /\ amount <= Entry(p, fromId)

\* C10: an admitted move is applied exactly when both tiles exist, are
\* neighbours, are both owned by the player's faction and
\* 1 <= amount <= troops at fromTile; an applied move takes exactly amount from
\* fromTile, adds it to toTile and keeps the total troops and the inventory
C10_MoveAppliedIff ==
    \A s \in SocketIds, fromId \in TileInputs, toId \in TileInputs, raw \in RawAmounts :
        (Live(s) /\ Admitted(s)) =>
            LET out == MoveOut(s, fromId, toId, raw)
                amount == AmountOf(raw)
                before == Player(s)
                after == out.players[TokenOf(s)]
            IN IF MoveConditions(before, fromId, toId, amount)
               THEN /\ Entry(after, fromId) = Entry(before, fromId) - amount
                    /\ Entry(after, toId) = Entry(before, toId) + amount
                    /\ \A id \in TileIds \ {fromId, toId} : Entry(after, id) = Entry(before, id)
                    /\ SumOver(after.troops, DOMAIN after.troops)
                           = SumOver(before.troops, DOMAIN before.troops)
                    /\ after.inventory = before.inventory
               ELSE /\ out.players = players
                    /\ out.tiles = tiles

\* C10 witness: a player has moved only a part of the troops of a tile to a
\* neighbouring tile of the faction and may move again
C10_Witness ==
    \E s \in SocketIds, fromId \in TileIds, toId \in TileIds :
        /\ Live(s) /\ Admitted(s)
        /\ MoveConditions(Player(s), fromId, toId, 1)
        /\ Entry(Player(s), toId) >= 1
        /\ \E far \in TileIds :
              /\ ~Adjacent(fromId, far) /\ far # fromId
              /\ tiles[far].ownerFaction = Player(s).factionId

-----------------------------------------------------------------------------
(* Persistence (C11) *)

\* what a process booted on the snapshot of the current state holds
RestoredTiles == LoadedTiles(SnapshotData)
RestoredPlayers == SnapshotData.players
RestoredIpToToken == IF DISABLE_IP_LOCK THEN << >> ELSE SnapshotData.ipToToken

\* C11: a snapshot of the current state, restored, gives the same tiles
\* (ownerFaction, control, isCapital), the same players and the same
\* origin-to-token map, and the publicTroops recomputed by the restore equal the
\* publicTroops held in memory
C11_SnapshotRoundTrip ==
    /\ DOMAIN RestoredTiles = DOMAIN tiles
    /\ \A id \in DOMAIN tiles :
          /\ RestoredTiles[id].ownerFaction = tiles[id].ownerFaction
          /\ RestoredTiles[id].control = tiles[id].control
          /\ RestoredTiles[id].isCapital = tiles[id].isCapital
          /\ RestoredTiles[id].publicTroops = tiles[id].publicTroops
    /\ RestoredPlayers = players
    /\ RestoredIpToToken = ipToToken

-----------------------------------------------------------------------------
(* Sessions (C12 - C15) *)

\* origin ip is held by the session of live connection s1: s1 came from ip,
\* a token is bound to it and the origin-to-token map names that token
HoldsOrigin(s1, ip) ==
    /\ Live(s1) /\ sockets[s1].ip = ip
    /\ Resolved(s1)
    /\ MapGet(ipToToken, ip, NoToken) = TokenOf(s1)

\* C12: while a session from origin O has a live connection, a further join
\* from origin O on another connection is rejected with session_error and
\* creates no player and no token binding
C12_SecondJoinFromOriginRejected ==
    \A s \in SocketIds, s1 \in SocketIds, name \in NameInputs, factionId \in FactionInputs :
        (/\ Live(s) /\ s1 # s /\ HoldsOrigin(s1, sockets[s].ip)
         /\ JoinValid(name, factionId)) =>
            LET out == JoinOut(s, name, factionId)
            IN /\ out.players = players
               /\ out.tokenToSocket = tokenToSocket
               /\ \E i \in 1..Len(out.events) : out.events[i] = EvSessionError(s)

\* C13: each token is bound to at most one connection; after a successful
\* resume(token) on connection s while another connection c1 is bound to the
\* token, c1 is no longer open, the token is bound to s only, and c1 does not
\* resolve to the token (a request on c1 cannot act for that player)
C13_ResumeReplacesConnection ==
    /\ \A i \in 1..Len(tokenToSocket), j \in 1..Len(tokenToSocket) :
          tokenToSocket[i][1] = tokenToSocket[j][1] => i = j
    /\ \A s \in SocketIds, token \in Tokens :
          LET c1 == MapGet(tokenToSocket, token, NoSocket)
          IN (Live(s) /\ ResumeValid(token) /\ c1 # NoSocket /\ c1 # s) =>
                LET out == ResumeOut(s, token)
                IN /\ out.sockets[c1].status # "open"
                   /\ \A i \in 1..Len(out.tokenToSocket) :
                         out.tokenToSocket[i][1] = token => out.tokenToSocket[i][2] = s
                   /\ MapGet(out.tokenToSocket, token, NoSocket) = s
                   /\ FindByValue(out.tokenToSocket, c1, NoToken) # token
                   /\ \E i \in 1..Len(out.events) : out.events[i] = EvJoined(s, token)

\* C13 witness: a live connection c2 resumes a token that is bound to another
\* live connection c1, and the resume closes c1, runs its disconnect handler
\* and binds the token to c2
C13_Witness ==
    \E c1 \in SocketIds, c2 \in SocketIds, token \in Tokens :
        /\ c1 # c2
        /\ Live(c1) /\ Live(c2)
        /\ ResumeValid(token)
        /\ MapGet(tokenToSocket, token, NoSocket) = c1
        /\ MapGet(ipToToken, sockets[c1].ip, NoToken) = token
        /\ LET out == ResumeOut(c2, token)
           IN /\ out.sockets[c1].status = "closed"
              /\ MapGet(out.tokenToSocket, token, NoSocket) = c2
              /\ MapGet(out.ipToToken, sockets[c1].ip, NoToken) = NoToken
              /\ MapGet(out.ipToToken, sockets[c2].ip, NoToken) = token

\* C14: a disconnect neither deletes nor alters a player: the players map
\* never loses an entry, only a tick changes an existing player in a session
\* step, and a resume with the token of any existing player on any live
\* connection succeeds (joined for that token, no error), whether or not the
\* token is still bound to a connection
C14_PlayersSurviveDisconnect ==
    /\ [](\A s \in SocketIds, token \in Tokens :
            (Live(s) /\ token \in DOMAIN players) =>
                LET out == ResumeOut(s, token)
                IN /\ \E i \in 1..Len(out.events) : out.events[i] = EvJoined(s, token)
                   /\ \A i \in 1..Len(out.events) : out.events[i].ev # "error_msg"
                   /\ MapGet(out.tokenToSocket, token, NoSocket) = s)
    /\ [][/\ DOMAIN players \subseteq DOMAIN players'
          /\ now' = now => \A t \in DOMAIN players : players'[t] = players[t]
          /\ (\E s \in SocketIds : sockets[s].status # "closed" /\ sockets'[s].status = "closed")
                => players' = players]_vars

\* C14 witness: the connection of a player has been disconnected, time has
\* passed, the player is still there with no connection bound to the token and
\* a live connection can resume it
C14_Witness ==
    \E c \in SocketIds, s \in SocketIds, token \in Tokens :
        /\ sockets[c].status = "closed" /\ sockets[c].handlers
        /\ Live(s)
        /\ token \in DOMAIN players
        /\ MapGet(tokenToSocket, token, NoSocket) = NoSocket
        /\ now > 0

\* C15: once the disconnect of a connection has been processed, no token is
\* bound to that connection in tokenToSocket, and its origin is not locked by
\* ipToToken when no other connection from that origin is left, so the next
\* connection from the origin is accepted
C15_DisconnectReleasesBindings ==
    \A s \in SocketIds :
        (sockets[s].status = "closed" /\ sockets[s].handlers) =>
            /\ \A i \in 1..Len(tokenToSocket) : tokenToSocket[i][2] # s
            /\ (\A c \in SocketIds :
                    sockets[c].ip = sockets[s].ip => sockets[c].status = "closed")
                  => ~IpLocked(sockets[s].ip)

-----------------------------------------------------------------------------
(* Recruitment (C16 - C18) *)

\* C16: an admitted recruit_collect of a player with produced = n > 0 adds n to
\* the inventory, lowers the accumulator by n (not below 0), sets produced to 0
\* and remainingMs to the full duration, and emits me_update to the sender;
\* with produced = 0 it changes no player, emits nothing and still takes one
\* token from the limiter; in both cases nothing else changes
C16_CollectEffect ==
    \A s \in SocketIds :
        (Live(s) /\ Admitted(s)) =>
            LET token == TokenOf(s)
                p == players[token]
                n == p.produced
                out == RecruitCollectOut(s)
            IN /\ out.tiles = tiles
               /\ \A t \in DOMAIN players : t # token => out.players[t] = players[t]
               /\ DOMAIN out.players = DOMAIN players
               /\ out.actionLimiters[token].tokens = Refilled(actionLimiters[token]) - 1
               /\ \A t \in DOMAIN actionLimiters :
                     t # token => out.actionLimiters[t] = actionLimiters[t]
               /\ IF n > 0
                  THEN /\ out.players[token].inventory = p.inventory + n
                       /\ out.players[token].producedPrecise
                             = (IF n <= p.producedPrecise.whole
                                THEN [whole |-> p.producedPrecise.whole - n,
                                      f1 |-> p.producedPrecise.f1,
                                      f2 |-> p.producedPrecise.f2,
                                      f3 |-> p.producedPrecise.f3]
                                ELSE DblZero)
                       /\ out.players[token].produced = 0
                       /\ out.players[token].remainingMs = p.recruitDurationMs
                       /\ out.players[token].troops = p.troops
                       /\ out.players[token].reserveCap = p.reserveCap
                       /\ out.events = <<EvMeUpdate(s, token)>>
                  ELSE /\ out.players = players
                       /\ out.events = << >>

\* C16 witness: a player has collected (inventory filled, produced 0, the
\* fractional rest kept, the timer full) and has sent a second collect at the
\* same instant, which found produced = 0 and was charged as well
C16_Witness ==
    \E token \in DOMAIN players :
        /\ players[token].inventory > 0
        /\ players[token].produced = 0
        /\ players[token].producedPrecise # DblZero
        /\ players[token].remainingMs = RECRUIT_DURATION_MS
        /\ actionLimiters[token].last = now
        /\ actionLimiters[token].tokens <= LIMITER_CAPACITY - 2

\* x >= y for two doubles
DblAtLeast(x, y) ==
    \/ x.whole > y.whole
    \/ x.whole = y.whole /\ x.f1 > y.f1
    \/ x.whole = y.whole /\ x.f1 = y.f1 /\ x.f2 > y.f2
    \/ x.whole = y.whole /\ x.f1 = y.f1 /\ x.f2 = y.f2 /\ x.f3 >= y.f3

\* C17: for every player, after every tick and every collect, produced is
\* the floor of producedPrecise and 0 <= producedPrecise <= reserveCap; a tick
\* on a player whose remainingMs is 0 leaves producedPrecise, produced and
\* remainingMs as they are
C17_ProductionBounds ==
    \A t \in DOMAIN players :
        LET p == players[t]
        IN /\ p.produced = p.producedPrecise.whole
           /\ DblAtLeast(p.producedPrecise, DblZero)
           /\ DblAtLeast(DblInt(p.reserveCap), p.producedPrecise)
           /\ p.remainingMs = 0 =>
                 /\ TickPlayer(p).producedPrecise = p.producedPrecise
                 /\ TickPlayer(p).produced = p.produced
                 /\ TickPlayer(p).remainingMs = 0

\* C17 witness: a player has collected during the production, the timer has
\* run out since, and one more tick has found remainingMs = 0
C17_Witness ==
    \E t \in DOMAIN players :
        /\ players[t].inventory > 0
        /\ players[t].remainingMs = 0
        /\ players[t].produced = players[t].reserveCap
        /\ now >= RecruitSeconds + 2

\* C18: a tick advances every player in the players map in the same way,
\* whether or not a connection is bound to the player's token; and when the
\* timer keeps firing, every player who does not collect and has a full
\* production period ahead eventually has produced = reserveCap
C18_OfflineProduction ==
    /\ [][now' = now + 1 =>
            \A t \in DOMAIN players : players'[t] = TickPlayer(players[t])]_vars
    /\ \A t \in Tokens :
          []((t \in DOMAIN players /\ now + RecruitSeconds <= MaxRecruitTicks)
                => <>(t \in DOMAIN players /\ players[t].produced = players[t].reserveCap))

\* C18 witness: a player whose connection is gone has produced up to reserveCap
C18_Witness ==
    \E t \in DOMAIN players, c \in SocketIds :
        /\ ~MapHas(tokenToSocket, t)
        /\ sockets[c].status = "closed"
        /\ players[t].produced = players[t].reserveCap
        /\ players[t].remainingMs = 0

-----------------------------------------------------------------------------
(* Rate limiting and rejections (C19, C20) *)

\* the handler changed no tile and no player, emitted nothing and left the
\* buckets of the other tokens alone
Dropped(out, token) ==
    /\ out.tiles = tiles
    /\ out.players = players
    /\ out.events = << >>
    /\ \A t \in DOMAIN actionLimiters : t # token => out.actionLimiters[t] = actionLimiters[t]
    /\ DOMAIN out.actionLimiters = DOMAIN actionLimiters

\* C19: a recruit_collect, deploy, move or attack that arrives when the
\* sender's bucket holds less than one token after the refill is dropped,
\* whatever its payload: no tile and no player changes, no event is emitted
\* and the bucket of every other session is unaffected
C19_ExhaustedBucketDrops ==
    \A s \in SocketIds :
        (Live(s) /\ Resolved(s) /\ Refilled(actionLimiters[TokenOf(s)]) < 1) =>
            LET token == TokenOf(s)
            IN /\ Dropped(RecruitCollectOut(s), token)
               /\ \A targetId \in TileInputs, raw \in RawAmounts :
                     Dropped(DeployOut(s, targetId, raw), token)
               /\ \A fromId \in TileInputs, toId \in TileInputs, raw \in RawAmounts :
                     /\ Dropped(MoveOut(s, fromId, toId, raw), token)
                     /\ Dropped(AttackOut(s, fromId, toId, raw), token)

\* C19 witness: a player whose bucket is empty holds troops on a tile of the
\* faction next to a tile that could be attacked, while another player's
\* bucket is not empty
C19_Witness ==
    \E s \in SocketIds, fromId \in TileIds, targetId \in TileIds, other \in Tokens :
        /\ Live(s) /\ Resolved(s)
        /\ Refilled(actionLimiters[TokenOf(s)]) < 1
        /\ Entry(Player(s), fromId) >= 1
        /\ tiles[fromId].ownerFaction = Player(s).factionId
        /\ Adjacent(fromId, targetId)
        /\ ~tiles[targetId].isCapital
        /\ other # TokenOf(s)
        /\ other \in DOMAIN actionLimiters
        /\ Refilled(actionLimiters[other]) >= 1

\* the handler sent an error_msg to the acting connection
Answered(out, s) ==
    \E i \in 1..Len(out.events) : out.events[i].ev = "error_msg" /\ out.events[i].to = s

\* C20: every attack or deploy that is rejected for a rule violation (tiles
\* not adjacent, target not connected to the capital, capital targeted, amount
\* above the troops at fromTile or above the inventory) emits error_msg to the
\* acting connection, and so does an attack from a connection with no session
C20_RuleViolationsAnswered ==
    \A s \in SocketIds :
        Live(s) =>
            /\ ~Resolved(s) =>
                  \A fromId \in TileInputs, targetId \in TileInputs, raw \in RawAmounts :
                      Answered(AttackOut(s, fromId, targetId, raw), s)
            /\ Admitted(s) =>
                  /\ \A fromId \in TileIds, targetId \in TileIds, raw \in RawAmounts :
                        (/\ AmountOf(raw) >= 1
                         /\ tiles[fromId].ownerFaction = Player(s).factionId
                         /\ \/ ~Adjacent(fromId, targetId)
                            \/ tiles[targetId].isCapital
                            \/ AmountOf(raw) > Entry(Player(s), fromId))
                            => Answered(AttackOut(s, fromId, targetId, raw), s)
                  /\ \A targetId \in TileIds, raw \in RawAmounts :
                        (/\ AmountOf(raw) >= 1
                         /\ \/ targetId \notin ConnectedToCapital(Player(s))
                            \/ AmountOf(raw) > Player(s).inventory)
                            => Answered(DeployOut(s, targetId, raw), s)

-----------------------------------------------------------------------------
(* Rejected join and resume (C21) *)

\* C21: a join with an empty name or an unknown faction id, and a resume with
\* a token that is not in the players map, are answered with an error_msg to
\* the sender and change nothing: no player is created, no token or origin
\* binding is added or replaced, no limiter is created, no connection is closed
\* and no tile changes
C21_InvalidJoinResumeRejected ==
    \A s \in SocketIds :
        Live(s) =>
            /\ \A name \in NameInputs, factionId \in FactionInputs :
                  (Len(name) = 0 \/ factionId \notin Factions) =>
                      LET out == JoinOut(s, name, factionId)
                      IN /\ out.tiles = tiles
                         /\ out.players = players
                         /\ out.tokenToSocket = tokenToSocket
                         /\ out.ipToToken = ipToToken
                         /\ out.actionLimiters = actionLimiters
                         /\ Len(out.events) = 1
                         /\ out.events[1].ev = "error_msg" /\ out.events[1].to = s
            /\ \A token \in TokenInputs :
                  token \notin DOMAIN players =>
                      LET out == ResumeOut(s, token)
                      IN /\ out.tokenToSocket = tokenToSocket
                         /\ out.ipToToken = ipToToken
                         /\ out.actionLimiters = actionLimiters
                         /\ out.sockets = sockets
                         /\ Len(out.events) = 1
                         /\ out.events[1].ev = "error_msg" /\ out.events[1].to = s

\* C21 witness: a connection that already holds a session and the binding of
\* its origin (bindings an accepted request would replace) can send the
\* invalid requests, while some token is not in the players map and another
\* connection is open (a connection a resume could close)
C21_Witness ==
    \E s \in SocketIds, c \in SocketIds, token \in Tokens :
        /\ Live(s) /\ Resolved(s)
        /\ MapGet(ipToToken, sockets[s].ip, NoToken) = TokenOf(s)
        /\ c # s /\ Live(c)
        /\ token \notin DOMAIN players

-----------------------------------------------------------------------------
(* Persistence failures (C22) *)

\* C22: when loadSnapshot fails on the file the disk holds (unparsable text, or
\* valid JSON that is not a whole snapshot), the tile map and the players map
\* of the process are what they were before the attempt; and a snapshot
\* attempt, failed or not, changes no tile and no player
C22_PersistenceFailureKeepsMemory ==
    /\ [](LoadFails(disk) =>
            /\ loadSnapshot(disk, Booted).tiles = Booted.tiles
            /\ loadSnapshot(disk, Booted).players = Booted.players)
    /\ [][disk' # disk => (tiles' = tiles /\ players' = players)]_vars

-----------------------------------------------------------------------------
(* Capitals (C23) *)

\* the capitals caps and the tiles tls marked with them are well formed: one
\* capital per faction, distinct tiles, each owned by its faction with
\* isCapital set, and no other tile with isCapital set
WellFormedCapitals(caps, tls) ==
    /\ Len(caps) = Len(FactionIds)
    /\ \A i \in 1..Len(caps), j \in 1..Len(caps) : caps[i] = caps[j] => i = j
    /\ \A i \in 1..Len(caps) :
          /\ caps[i] \in DOMAIN tls
          /\ tls[caps[i]].ownerFaction = FactionIds[i]
          /\ tls[caps[i]].isCapital
    /\ \A id \in DOMAIN tls : tls[id].isCapital => id \in Range(caps)

\* C23: the generated world has exactly one capital per faction in
\* capitalsByFaction, on distinct tiles, each owned by its faction with
\* isCapital = TRUE, and no other tile has isCapital = TRUE; the same holds
\* for every way the vertices can resolve to nearest tiles, collisions with
\* the neighbour fallback included; and in every state of the game the
\* capital tiles and the isCapital flags are those of the generation
C23_CapitalsWellFormed ==
    /\ PickCapitals(1, NearestTiles, << >>) = [i \in 1..Len(FactionIds) |-> capitalsByFaction[FactionIds[i]]]
    /\ MarkCapitals(1, PickCapitals(1, NearestTiles, << >>), [id \in TileIds |-> NeutralTile])
          = WithCapitals
    /\ \A a \in TileIds, b \in TileIds :
          LET caps == PickCapitals(1, <<a, b>>, << >>)
          IN WellFormedCapitals(caps, MarkCapitals(1, caps, [id \in TileIds |-> NeutralTile]))
    /\ WellFormedCapitals(PickCapitals(1, NearestTiles, << >>), buildPentagonWorld)
    /\ \A id \in DOMAIN tiles :
          /\ tiles[id].isCapital = buildPentagonWorld[id].isCapital
          /\ tiles[id].isCapital => tiles[id].ownerFaction = buildPentagonWorld[id].ownerFaction
    /\ DOMAIN tiles = TileIds

\* C23 witness: a tile has been captured by the faction that did not own it
\* after the generation, the capitals are where they were, and a collision of
\* the two vertices on the first capital resolves to one of its neighbours
C23_Witness ==
    /\ \E id \in DOMAIN tiles :
          /\ tiles[id].ownerFaction # buildPentagonWorld[id].ownerFaction
          /\ tiles[id].ownerFaction \in Factions
    /\ \A f \in Factions : tiles[capitalsByFaction[f]].isCapital
    /\ PickCapitals(1, <<NearestTiles[1], NearestTiles[1]>>, << >>)[2] # NearestTiles[1]
    /\ PickCapitals(1, <<NearestTiles[1], NearestTiles[1]>>, << >>)[2] \in TileIds

-----------------------------------------------------------------------------
(* Broadcasts (C24) *)

\* every tile_update of the handler's events carries the sum of the troop
\* entries that the players hold on the tile once the handler has run
FreshTileUpdates(out) ==
    \A i \in 1..Len(out.events) :
        out.events[i].ev = "tile_update" =>
            out.events[i].publicTroops
                = SumTroops(out.players, DOMAIN out.players, out.events[i].tile)

\* C24: every tile_update emitted by join, deploy, move or attack carries a
\* publicTroops equal to the sum of all players' troop entries for the tile at
\* the moment of the emission, the troops credited or debited by the operation
\* included
C24_TileUpdateCarriesSum ==
    \A s \in SocketIds :
        Live(s) =>
            /\ \A name \in NameInputs, factionId \in FactionInputs :
                  FreshTileUpdates(JoinOut(s, name, factionId))
            /\ \A targetId \in TileInputs, raw \in RawAmounts :
                  FreshTileUpdates(DeployOut(s, targetId, raw))
            /\ \A fromId \in TileInputs, toId \in TileInputs, raw \in RawAmounts :
                  /\ FreshTileUpdates(MoveOut(s, fromId, toId, raw))
                  /\ FreshTileUpdates(AttackOut(s, fromId, toId, raw))

-----------------------------------------------------------------------------
(* Failed validation (C25) *)

\* the handler changed no tile and no player, and of the limiters only the
\* sender's, which paid for the request
OnlyBucketChanged(out, token) ==
    /\ out.tiles = tiles
    /\ out.players = players
    /\ DOMAIN out.actionLimiters = DOMAIN actionLimiters
    /\ \A t \in DOMAIN actionLimiters : t # token => out.actionLimiters[t] = actionLimiters[t]
    /\ out.actionLimiters[token].tokens = Refilled(actionLimiters[token]) - 1

\* the request fails a validation of the claim's list
AttackFailure(p, fromId, targetId, amount) ==
    \/ fromId \notin DOMAIN tiles \/ targetId \notin DOMAIN tiles
    \/ amount < 1
    \/ ~Adjacent(fromId, targetId)
    \/ tiles[fromId].ownerFaction # p.factionId
    \/ amount > Entry(p, fromId)
    \/ tiles[targetId].isCapital

DeployFailure(p, targetId, amount) ==
    \/ targetId \notin DOMAIN tiles
    \/ amount < 1
    \/ amount > p.inventory
    \/ targetId \notin ConnectedToCapital(p)

\* C25: an admitted move, deploy or attack that fails validation (unknown
\* tile, amount < 1, not adjacent, wrong owner, insufficient troops or
\* inventory, unreachable target, capital target) leaves every tile and every
\* player as they are; the only state it changes is the sender's bucket
C25_FailedValidationFrame ==
    \A s \in SocketIds :
        (Live(s) /\ Admitted(s)) =>
            LET token == TokenOf(s)
                p == players[token]
            IN /\ \A fromId \in TileInputs, toId \in TileInputs, raw \in RawAmounts :
                     /\ ~MoveConditions(p, fromId, toId, AmountOf(raw))
                           => OnlyBucketChanged(MoveOut(s, fromId, toId, raw), token)
                     /\ AttackFailure(p, fromId, toId, AmountOf(raw))
                           => OnlyBucketChanged(AttackOut(s, fromId, toId, raw), token)
               /\ \A targetId \in TileInputs, raw \in RawAmounts :
                     DeployFailure(p, targetId, AmountOf(raw))
                        => OnlyBucketChanged(DeployOut(s, targetId, raw), token)

\* C25 witness: a player who holds only the starting garrison at the capital
\* and an empty inventory has been charged for a request at this instant and
\* is still admitted; a tile that is not a neighbour of the capital exists
C25_Witness ==
    \E s \in SocketIds, far \in TileIds :
        /\ Live(s) /\ Admitted(s)
        /\ Player(s).troops = (capitalsByFaction[Player(s).factionId] :> START_TROOPS)
        /\ Player(s).inventory = 0
        /\ ~Adjacent(capitalsByFaction[Player(s).factionId], far)
        /\ far # capitalsByFaction[Player(s).factionId]
        /\ actionLimiters[TokenOf(s)].last = now
        /\ actionLimiters[TokenOf(s)].tokens < LIMITER_CAPACITY

-----------------------------------------------------------------------------
(* Chains of moves (C26) *)

\* C26: a hop of a chain of moves that is rejected (dropped by the limiter,
\* or failing a condition of the move, for example because another session
\* has captured a tile of the path) leaves the troops of every player where
\* the earlier hops have put them; and the troops a player holds on the tiles
\* change only in a step that serves a request of that player, so the server
\* never takes them back to an earlier tile
C26_RejectedHopKeepsEarlierHops ==
    /\ [](\A s \in SocketIds :
            (Live(s) /\ Resolved(s)) =>
                \A fromId \in TileInputs, toId \in TileInputs, raw \in RawAmounts :
                    (\/ Refilled(actionLimiters[TokenOf(s)]) < 1
                     \/ ~MoveConditions(Player(s), fromId, toId, AmountOf(raw))) =>
                        LET out == MoveOut(s, fromId, toId, raw)
                        IN /\ \A t \in DOMAIN players : out.players[t].troops = players[t].troops
                           /\ \A id \in DOMAIN tiles :
                                 out.tiles[id].publicTroops = tiles[id].publicTroops)
    /\ [][\A t \in DOMAIN players :
              players'[t].troops # players[t].troops
                  => actionLimiters'[t] # actionLimiters[t]]_vars

\* C26 witness: a player has moved troops off the capital, and the tile they
\* stand on now belongs to another faction (the next hop from it is rejected)
\* or the player's bucket is empty (the next hop is dropped)
C26_Witness ==
    \E s \in SocketIds, id \in TileIds :
        /\ Live(s) /\ Resolved(s)
        /\ id # capitalsByFaction[Player(s).factionId]
        /\ Entry(Player(s), id) >= 1
        /\ Entry(Player(s), capitalsByFaction[Player(s).factionId]) < START_TROOPS
        /\ \/ tiles[id].ownerFaction # Player(s).factionId
           \/ Refilled(actionLimiters[TokenOf(s)]) < 1

-----------------------------------------------------------------------------
(* Roster (C27) *)

\* the players whose token is bound to an open connection
Online(pls, t2s, socks) ==
    {t \in DOMAIN pls :
        /\ MapHas(t2s, t)
        /\ socks[MapGet(t2s, t, NoSocket)].status = "open"}

\* every players_online of the events lists exactly the players online
RosterIsOnline(evs, pls, t2s, socks) ==
    \A i \in 1..Len(evs) :
        evs[i].ev = "players_online" => evs[i].list = Online(pls, t2s, socks)

\* C27: every players_online broadcast lists exactly the players that have a
\* live connection bound to their token; the broadcast of a disconnect does
\* not list the player whose connection was closed
C27_RosterListsOnlinePlayers ==
    \A s \in SocketIds :
        /\ Live(s) =>
              LET out == DisconnectOut(s)
              IN RosterIsOnline(out.events, players, out.tokenToSocket,
                                [sockets EXCEPT ![s].status = "closed"])
        /\ Live(s) =>
              \A name \in NameInputs, factionId \in FactionInputs :
                  LET out == JoinOut(s, name, factionId)
                  IN RosterIsOnline(out.events, out.players, out.tokenToSocket, sockets)

-----------------------------------------------------------------------------
(* Rate limiting (C28) *)

\* the requests of the token admitted at the times t1..t2
RECURSIVE AdmittedIn(_, _, _)
AdmittedIn(token, t1, t2) ==
    IF t1 > t2 THEN 0 ELSE admitted[<<token, t1>>] + AdmittedIn(token, t1 + 1, t2)

\* the handler took one token from a bucket that held one after the refill,
\* and none from a bucket that did not
Withdrawn(out, token) ==
    out.actionLimiters[token].tokens
        = Min(LIMITER_CAPACITY,
              actionLimiters[token].tokens
                  + (now - actionLimiters[token].last) * LIMITER_REFILL_PER_SEC)
          - (IF Admits(actionLimiters[token]) THEN 1 ELSE 0)

\* C28: with time in whole seconds, the token count of every bucket lies in
\* [0, capacity]; an admitted request withdraws exactly one token and a
\* dropped request none; and in every window of T seconds at most
\* capacity + T * refillPerSec requests of a session are admitted
C28_TokenBucket ==
    /\ \A t \in DOMAIN actionLimiters :
          /\ 0 <= actionLimiters[t].tokens
          /\ actionLimiters[t].tokens <= LIMITER_CAPACITY
          /\ actionLimiters[t].last <= now
    /\ \A s \in SocketIds :
          (Live(s) /\ Resolved(s)) =>
              /\ Withdrawn(RecruitCollectOut(s), TokenOf(s))
              /\ \A pr \in TilePairs, raw \in RawAmounts :
                    /\ Withdrawn(MoveOut(s, pr[1], pr[2], raw), TokenOf(s))
                    /\ Withdrawn(AttackOut(s, pr[1], pr[2], raw), TokenOf(s))
                    /\ Withdrawn(DeployOut(s, pr[2], raw), TokenOf(s))
    /\ \A token \in Tokens, t1 \in 0..MaxRecruitTicks, t2 \in 0..MaxRecruitTicks :
          t1 <= t2 =>
              AdmittedIn(token, t1, t2) <= LIMITER_CAPACITY + (t2 - t1) * LIMITER_REFILL_PER_SEC

\* C28 witness: a session has spent a full bucket in one instant and what
\* the next second refilled, its bucket is empty, and a request that follows
\* is dropped
C28_Witness ==
    \E s \in SocketIds, t \in 0..(MaxRecruitTicks - 1) :
        /\ Live(s) /\ Resolved(s)
        /\ admitted[<<TokenOf(s), t>>] = LIMITER_CAPACITY
        /\ admitted[<<TokenOf(s), t + 1>>] = LIMITER_REFILL_PER_SEC
        /\ now = t + 1
        /\ ~Admits(actionLimiters[TokenOf(s)])

-----------------------------------------------------------------------------
(* Ranges (C29) *)

\* C29: in every reachable state the control of every tile and the inventory
\* of every player are non-negative integers
C29_ControlAndInventoryNatural ==
    /\ \A id \in DOMAIN tiles : tiles[id].control \in Nat
    /\ \A t \in DOMAIN players : players[t].inventory \in Nat

\* C29 witness: an attack with as many troops as the tile had defenders has
\* been repelled and has left the tile with control 0, and a player has
\* collected troops and deployed the whole inventory
C29_Witness ==
    /\ \E id \in DOMAIN tiles :
          /\ tiles[id].control = 0
          /\ tiles[id].ownerFaction = buildPentagonWorld[id].ownerFaction
    /\ \E t \in DOMAIN players :
          /\ players[t].inventory = 0
          /\ Total(players[t]) > START_TROOPS

-----------------------------------------------------------------------------
(* Full production (C30) *)

\* C30: a player whose remainingMs is 0 (a whole production period after the
\* join or after the last successful collect, with no collect in between) has
\* producedPrecise = reserveCap and produced = reserveCap, whatever fraction a
\* collect has left in the accumulator: the sums of the code's doubles reach
\* the cap just as the exact sums do
C30_FullCapWhenPeriodEnds ==
    \A t \in DOMAIN players :
        LET p == players[t]
        IN p.remainingMs = 0 =>
              /\ p.producedPrecise = DblInt(p.reserveCap)
              /\ p.produced = p.reserveCap

\* C30 witness: a player who collected in the middle of a period, leaving a
\* fraction in the accumulator, has reached the end of the next period
C30_Witness ==
    \E t \in DOMAIN players :
        /\ players[t].inventory > 0
        /\ players[t].inventory % players[t].reserveCap # 0
        /\ players[t].remainingMs = 0
        /\ players[t].producedPrecise = DblInt(players[t].reserveCap)

-----------------------------------------------------------------------------
(* One token per connection (C31) *)

\* C31: in every reachable state no two tokens are bound to the same
\* connection (tokenToSocket is injective), so the find of lines 1075, 1091,
\* 1116, 1144 and 1194 resolves the one player of the connection
C31_ConnectionHasOneToken ==
    \A i, j \in 1..Len(tokenToSocket) :
        tokenToSocket[i][2] = tokenToSocket[j][2] => i = j

-----------------------------------------------------------------------------
(* The frame of an attack (C32) *)

\* C32: whatever the payload of an attack and whether it captures or is
\* repelled, the record of every player other than the attacker is left as it
\* was (troops, inventory and production fields; in particular the troops that
\* players of the previous owner faction hold on a captured tile), and of the
\* attacker's record only the troops change
C32_AttackChangesOnlyAttackerTroops ==
    \A s \in SocketIds :
        (Live(s) /\ Resolved(s)) =>
            LET token == TokenOf(s)
            IN \A pr \in TileIds \X TileInputs, raw \in RawAmounts :
                  LET out == AttackOut(s, pr[1], pr[2], raw)
                  IN /\ DOMAIN out.players = DOMAIN players
                     /\ \A t \in DOMAIN players \ {token} :
                           out.players[t] = players[t]
                     /\ [out.players[token] EXCEPT !.troops = players[token].troops]
                           = players[token]

\* C32 witness: a tile has been captured from a faction while a player of that
\* faction held troops on it, and the troops are still in that player's ledger
C32_Witness ==
    \E t \in DOMAIN players, id \in TileIds :
        /\ Entry(players[t], id) >= 1
        /\ buildPentagonWorld[id].ownerFaction = players[t].factionId
        /\ tiles[id].ownerFaction \in Factions \ {players[t].factionId}

-----------------------------------------------------------------------------
(* Where troops stand (C33) *)

\* the handler's output has raised a troop entry only on tiles that its output
\* gives to the faction of the entry's player
CreditsOnOwnTiles(out) ==
    \A t \in DOMAIN out.players : \A id \in DOMAIN out.players[t].troops :
        out.players[t].troops[id] >
            (IF t \in DOMAIN players THEN Entry(players[t], id) ELSE 0)
        => out.tiles[id].ownerFaction = out.players[t].factionId

\* C33, as stated: every key of a player's troops map is a tile owned by the
\* player's faction
C33_TroopsOnOwnTiles ==
    \A t \in DOMAIN players : \A id \in DOMAIN players[t].troops :
        tiles[id].ownerFaction = players[t].factionId

\* C33, amended: troops are placed only on tiles of the player's faction: a
\* join, deploy, move or attack, whatever its payload, raises a troop entry
\* only on a tile that belongs to the player's faction once the handler is
\* done (an entry on a tile that another faction captures later stays)
C33_TroopsPlacedOnOwnTiles ==
    \A s \in SocketIds :
        Live(s) =>
            /\ \A n \in NameInputs, f \in FactionInputs :
                  CreditsOnOwnTiles(JoinOut(s, n, f))
            /\ \A targetId \in TileInputs, raw \in RawAmounts :
                  CreditsOnOwnTiles(DeployOut(s, targetId, raw))
            /\ \A fromId \in TileIds, toId \in TileInputs, raw \in RawAmounts :
                  /\ CreditsOnOwnTiles(MoveOut(s, fromId, toId, raw))
                  /\ CreditsOnOwnTiles(AttackOut(s, fromId, toId, raw))

\* C33 witness: a player's troops stand on a tile that another faction has
\* captured, next to the survivors of the player who captured it
C33_Witness ==
    \E t1, t2 \in DOMAIN players, id \in TileIds :
        /\ players[t1].factionId # players[t2].factionId
        /\ Entry(players[t1], id) >= 1 /\ Entry(players[t2], id) >= 1
        /\ tiles[id].ownerFaction = players[t2].factionId

-----------------------------------------------------------------------------
(* Attacks on the own faction (C34) *)

\* C34: an attack whose target tile is owned by the attacker's own faction is
\* never accepted: whatever its payload, it leaves the control of the target
\* as it was (the control is neither reduced nor reset to 0) and debits no
\* troops
C34_NoAttackOnOwnFaction ==
    \A s \in SocketIds :
        (Live(s) /\ Resolved(s)) =>
            LET token == TokenOf(s)
                p == players[token]
            IN \A fromId \in TileIds, targetId \in TileIds, raw \in RawAmounts :
                  tiles[targetId].ownerFaction = p.factionId =>
                      LET out == AttackOut(s, fromId, targetId, raw)
                      IN /\ out.tiles[targetId].control = tiles[targetId].control
                         /\ out.players[token].troops = p.troops

=============================================================================
